---- MODULE Spec2Model ----
(***************************************************************************)
(* Model of the tool-augmented request generator of finam-hack:            *)
(*   scripts/generate_submission_adv.py  (parser, tool round, loop)        *)
(*   src/app/core/llm.py                 (model gateway)                   *)
(*   src/app/core/mcp_client.py          (connection to the tool server)   *)
(* Text is a sequence of one-character strings, so that strip, upper,      *)
(* startswith and split are computed character by character.               *)
(***************************************************************************)
EXTENDS Integers, Sequences, FiniteSets, TLC

VARIABLES
    mode,                  \* which entry point this behaviour exercises
    \* ---- parse_llm_response called on its own, and the "{m} {p}" rendering
    p_pc,                  \* "none" | "pair" | "text" | "parsed"
    in_method,             \* method given to the rendering ("" when none)
    in_path,               \* path given to the rendering
    response,              \* text handed to parse_llm_response
    request,               \* the parser's `request` when its path search begins
    parsed,                \* <<method, request>> returned by parse_llm_response
    \* ---- generate_api_call_with_mcp / generate_api_call
    pc,                    \* position in the function
    question,              \* argument
    model,                 \* argument: the configured model name
    max_iterations,        \* argument
    iteration,             \* loop variable of `for iteration in range(...)`
    conversation_history,  \* local list of messages
    total_cost,            \* local accumulator, in micro-units
    result,                \* returned {type, request}; type "" before return
    caught,                \* exception handled by `except Exception` ("" if none)
    escaped,               \* TRUE iff an exception left the function
    \* ---- execute_tool_calls
    tool_calls,            \* argument: the calls requested by the assistant
    assistant_content,     \* content of the reply that requested them
    results,               \* local list of tool messages
    connected,             \* MCPClient._connected
    \* ---- history of external calls (observation only)
    llm_calls,             \* number of model calls made by the running function
    llm_failures,          \* how many of them raised
    tool_log,              \* invocations made by the running tool round
    final_text,            \* the reply without tool calls, once received
    sent_messages,         \* the message list given to the latest model call
    in_flight,             \* external calls sent and not yet returned
    \* ---- main of generate_submission_adv.py (the batch driver)
    b_pc,                  \* position in main
    use_mcp,               \* option --use-mcp/--no-mcp, cleared when loading fails
    tools,                 \* tool list loaded from the server
    test_questions,        \* rows of test.csv
    item,                  \* number of questions taken from test_questions
    main_results,          \* main's `results`: the rows collected
    main_total_cost,       \* main's `total_cost`
    output_file,           \* submission.csv
    main_raised,           \* exception that ended main ("" if none)
    \* ---- main of chat_cli_adv.py (the interactive session)
    c_pc,                  \* position in the session
    user_input,            \* the line read at the prompt
    echoed,                \* what the turn has displayed so far
    turns,                 \* lines read so far
    session_rounds,        \* tool rounds the model has asked for so far
    driver,                \* which chat driver runs ("none" outside the chat)
    st_messages,           \* st.session_state.messages of the Streamlit page
    \* ---- one MCPClient instance of mcp_client.py
    tools_cache,           \* MCPClient._tools_cache
    fetches,               \* times the server was asked for its tool list
    returned,              \* what each list_tools call on the instance returned
    mcp_tools,             \* argument of convert_to_openai_tools
    openai_tools,          \* its result
    \* ---- the tool server and the client of the trading API
    environ,               \* FINAM_ACCESS_TOKEN of the server process ("" if unset)
    orders,                \* the orders the brokerage holds for the account
    endpoints,             \* requests made to the outside so far
    s_call,                \* the latest call: layer, name, arguments, outcome
    s_result,              \* what it returned or raised
    s_calls,               \* calls made so far
    \* ---- history of the cost accounting
    billed,                \* token counts of the replies received in the run
    cost_log,              \* the costs returned to main, one per question
    load_failed,           \* whether loading the tools failed when the batch started
    \* ---- execute_tool_calls on its own
    e_pc,                  \* "none" | "for" | "returned"
    e_tool_calls,          \* its argument
    e_results,             \* its `results`
    e_raw,                 \* what the server answered to each call made
    \* ---- load_train_examples
    t_pc,                  \* "none" | "call" | "returned" | "raised"
    examples,              \* the rows read from the training file
    num_examples,          \* argument
    selected,              \* the returned list
    t_raised,              \* the exception that left the function ("" if none)
    \* ---- one FinamAPIClientEnhanced instance
    a_initialized,         \* self._initialized
    a_task,                \* per coroutine: the method it runs and where it waits
    a_ops,                 \* methods called so far
    a_started,             \* calls of access_tokens.set_jwt_token made
    a_succeeded            \* those that returned

loopVars == <<pc, question, model, max_iterations, iteration,
              conversation_history, total_cost, result, caught, escaped,
              tool_calls, assistant_content, results, connected, llm_calls,
              llm_failures, tool_log, final_text, sent_messages, in_flight>>
parseVars == <<p_pc, in_method, in_path, response, request, parsed>>
batchVars == <<b_pc, use_mcp, tools, test_questions, item, main_results,
               main_total_cost, output_file, main_raised>>
chatVars == <<c_pc, user_input, echoed, turns, session_rounds, driver, st_messages>>
clientVars == <<tools_cache, fetches, returned, mcp_tools, openai_tools>>
serverVars == <<environ, orders, endpoints, s_call, s_result, s_calls>>
costVars == <<billed, cost_log>>
execVars == <<e_pc, e_tool_calls, e_results, e_raw>>
trainVars == <<t_pc, examples, num_examples, selected, t_raised>>
authVars == <<a_initialized, a_task, a_ops, a_started, a_succeeded>>
vars == <<mode, p_pc, in_method, in_path, response, request, parsed, pc, question, model,
          max_iterations, iteration, conversation_history, total_cost, result,
          caught, escaped, tool_calls, assistant_content, results, connected,
          llm_calls, llm_failures, tool_log, final_text, sent_messages,
          in_flight, b_pc, use_mcp, tools,
          test_questions, item, main_results, main_total_cost, output_file,
          main_raised, c_pc, user_input, echoed, turns, session_rounds,
          driver, st_messages, tools_cache, fetches, returned, mcp_tools,
          openai_tools, environ, orders, endpoints, s_call, s_result, s_calls,
          billed, cost_log, load_failed, e_pc, e_tool_calls, e_results, e_raw,
          t_pc, examples, num_examples, selected, t_raised,
          a_initialized, a_task, a_ops, a_started, a_succeeded>>

----------------------------------------------------------------------------
(* Text primitives of Python's str, on sequences of characters.            *)

Whitespace == {" ", "\n"}

Lower == <<"a", "b", "c", "d", "e", "f", "g", "h", "i", "j", "k", "l", "m",
           "n", "o", "p", "q", "r", "s", "t", "u", "v", "w", "x", "y", "z">>
Upper == <<"A", "B", "C", "D", "E", "F", "G", "H", "I", "J", "K", "L", "M",
           "N", "O", "P", "Q", "R", "S", "T", "U", "V", "W", "X", "Y", "Z">>

UpperChar(c) ==
    IF \E i \in 1..Len(Lower) : Lower[i] = c
    THEN Upper[CHOOSE i \in 1..Len(Lower) : Lower[i] = c]
    ELSE c

\* the character U+FB06 (small ligature st), whose upper case is the two
\* characters "ST"
LigatureST == "st-ligature"

\* str.upper() of one character: a sequence, since full case mapping may
\* give more than one character
UpperOf(c) == IF c = LigatureST THEN <<"S", "T">> ELSE <<UpperChar(c)>>

RECURSIVE upper(_)
upper(s) == IF s = <<>> THEN <<>> ELSE UpperOf(Head(s)) \o upper(Tail(s))

RECURSIVE lstrip(_)
lstrip(s) ==
    IF s = <<>> THEN <<>>
    ELSE IF Head(s) \in Whitespace THEN lstrip(Tail(s)) ELSE s

RECURSIVE rstrip(_)
rstrip(s) ==
    IF s = <<>> THEN <<>>
    ELSE IF s[Len(s)] \in Whitespace THEN rstrip(SubSeq(s, 1, Len(s) - 1)) ELSE s

strip(s) == rstrip(lstrip(s))

startswith(s, prefix) ==
    /\ Len(prefix) <= Len(s)
    /\ SubSeq(s, 1, Len(prefix)) = prefix

\* s[n:]
SliceFrom(s, n) == SubSeq(s, n + 1, Len(s))

\* str.split(): the maximal runs of non-whitespace characters, in order.
RECURSIVE split(_)
split(s) ==
    LET t == lstrip(s)
        RECURSIVE WordLen(_)
        WordLen(u) == IF u = <<>> \/ Head(u) \in Whitespace THEN 0
                      ELSE 1 + WordLen(Tail(u))
    IN  IF t = <<>> THEN <<>>
        ELSE <<SubSeq(t, 1, WordLen(t))>> \o split(SliceFrom(t, WordLen(t)))

----------------------------------------------------------------------------
(* parse_llm_response                                                      *)

methods == <<"GET", "POST", "DELETE", "PUT", "PATCH">>

MethodChars(m) ==
    CASE m = "GET"    -> <<"G", "E", "T">>
      [] m = "POST"   -> <<"P", "O", "S", "T">>
      [] m = "DELETE" -> <<"D", "E", "L", "E", "T", "E">>
      [] m = "PUT"    -> <<"P", "U", "T">>
      [] m = "PATCH"  -> <<"P", "A", "T", "C", "H">>

FallbackRequest == <<"/", "v", "1", "/", "a", "s", "s", "e", "t", "s">>

Slash == <<"/">>


\* the method scan without .upper()
MatchedMethod_CaseSensitive(resp) ==
    LET hits == {i \in 1..Len(methods) : startswith(resp, MethodChars(methods[i]))}
    IN  IF hits = {} THEN 0
        ELSE CHOOSE i \in hits : \A j \in hits : i <= j

\* lines 174-178: the first method of the list the upper-cased text starts with
\* (0 when there is none)
MatchedMethod(resp) ==
    LET hits == {i \in 1..Len(methods) :
                    startswith(upper(resp), MethodChars(methods[i]))}
    IN  IF hits = {} THEN 0
        ELSE CHOOSE i \in hits : \A j \in hits : i <= j

\* the parser without the search of lines 182-188
FirstPathPart_NoSearch(req) == req

\* lines 182-188: the first whitespace-separated part that starts with "/"
FirstPathPart(req) ==
    LET parts == split(req)
        hits  == {i \in 1..Len(parts) : startswith(parts[i], Slash)}
    IN  IF hits = {} THEN req
        ELSE parts[CHOOSE i \in hits : \A j \in hits : i <= j]


\* the parser without lines 190-192 (no fallback path)
parse_llm_response_NoFallback(text) ==
    LET resp   == strip(text)
        k      == MatchedMethod(resp)
        method == IF k = 0 THEN "GET" ELSE methods[k]
        req0   == IF k = 0 THEN resp
                  ELSE strip(SliceFrom(resp, Len(MethodChars(methods[k]))))
        req1   == strip(req0)
        req2   == IF startswith(req1, Slash) THEN req1 ELSE FirstPathPart(req1)
    IN  <<method, req2>>

\* the parser taking the first "/" part even when the candidate starts with "/"
parse_llm_response_AlwaysSplit(text) ==
    LET resp   == strip(text)
        k      == MatchedMethod(resp)
        method == IF k = 0 THEN "GET" ELSE methods[k]
        req0   == IF k = 0 THEN resp
                  ELSE strip(SliceFrom(resp, Len(MethodChars(methods[k]))))
        req2   == FirstPathPart(strip(req0))
        req3   == IF startswith(req2, Slash) THEN req2 ELSE FallbackRequest
    IN  <<method, req3>>


\* lines 167-181: `request` when the path search begins (the path candidate)
PathCandidate(text) ==
    LET resp == strip(text)
        k    == MatchedMethod(resp)
    IN  strip(IF k = 0 THEN resp
              ELSE strip(SliceFrom(resp, Len(MethodChars(methods[k])))))

parse_llm_response(text) ==
    LET resp   == strip(text)
        k      == MatchedMethod(resp)
        method == IF k = 0 THEN "GET" ELSE methods[k]
        req0   == IF k = 0 THEN resp
                  ELSE strip(SliceFrom(resp, Len(MethodChars(methods[k]))))
        req1   == strip(req0)
        req2   == IF startswith(req1, Slash) THEN req1 ELSE FirstPathPart(req1)
        req3   == IF startswith(req2, Slash) THEN req2 ELSE FallbackRequest
    IN  <<method, req3>>

\* f"{ex['type']} {ex['request']}": the answer format shown to the model
parse_render(m, p) == MethodChars(m) \o <<" ">> \o p

----------------------------------------------------------------------------
(* Bounds and input sets.                                                  *)

MaxChunks     == 3   \* pieces a parser input is built from
MaxIterations == 2   \* largest --max-iterations tried
MaxToolCalls  == 2   \* most tool calls in one assistant reply

Chunks ==
    { <<"G", "E", "T">>, <<"p", "o", "s", "t">>, <<"P", "U", "T">>,
      <<"P", "A", "T", "C", "H">>, <<"D", "e", "l", "e", "t", "e">>,
      <<" ">>, <<"\n">>, <<"/">>, <<"a">>, <<"/", "v", "1">>,
      <<"p", "o", LigatureST>> }

RECURSIVE TextsOf(_)
TextsOf(n) ==
    IF n = 0 THEN { <<>> }
    ELSE LET shorter == TextsOf(n - 1)
         IN  shorter \cup {t \o c : t \in shorter, c \in Chunks}

Texts == TextsOf(MaxChunks)

\* every text that starts with "/" counts as a path (ApiCallResult.path)
Paths == {t \in Texts : startswith(t, Slash)}

MethodSet == {methods[i] : i \in 1..Len(methods)}

----------------------------------------------------------------------------
(* The parser on its own: a text, or a rendered (method, path) pair.       *)

ParseIdle ==
    /\ p_pc = "none"
    /\ in_method = ""
    /\ in_path = <<>>
    /\ response = <<>>
    /\ request = <<>>
    /\ parsed = <<"", <<>>>>

InitParse ==
    /\ mode = "parse"
    /\ request = <<>>
    /\ parsed = <<"", <<>>>>
    /\ \/ /\ p_pc = "text"
          /\ response \in Texts
          /\ in_method = ""
          /\ in_path = <<>>
       \/ /\ p_pc = "pair"
          /\ in_method \in MethodSet
          /\ in_path \in Paths
          /\ response = <<>>

Render ==
    /\ mode = "parse"
    /\ p_pc = "pair"
    /\ response' = parse_render(in_method, in_path)
    /\ p_pc' = "text"
    /\ UNCHANGED <<mode, trainVars, authVars, execVars, load_failed, costVars, clientVars, serverVars, in_method, in_path, request, parsed, loopVars, batchVars,
                   chatVars>>

Parse ==
    /\ mode = "parse"
    /\ p_pc = "text"
    /\ request' = PathCandidate(response)
    /\ parsed' = parse_llm_response(response)
    /\ p_pc' = "parsed"
    /\ UNCHANGED <<mode, trainVars, authVars, execVars, load_failed, costVars, clientVars, serverVars, in_method, in_path, response, loopVars, batchVars, chatVars>>

----------------------------------------------------------------------------
(* Messages, replies of the model, behaviour of the tool server.           *)

TextContent(t)  == [fmt |-> "text", key |-> "", val |-> t]

\* json.dumps of a one-entry object
json_dumps(obj) == [fmt |-> "json", key |-> obj.key, val |-> obj.val]

Message(role, content, calls, id, name) ==
    [role |-> role, content |-> content, tool_calls |-> calls,
     tool_call_id |-> id, name |-> name]

SystemMessage == Message("system", TextContent("create_system_prompt_with_tools"),
                         <<>>, "", "")

UserMessage(q) == Message("user", TextContent(q), <<>>, "", "")

\* the (question, model) arguments tried: the empty question, and scenario
\* A's question (transliterated) with a model the price table does not list
CallArguments ==
    { [question |-> "", model |-> "openai/gpt-4o"],
      [question |-> "Kakaya cena Sberbanka?", model |-> "some/unlisted-model"] }

CallIds == <<"call_1", "call_2", "call_3", "call_4">>

\* function.arguments of a tool call: a JSON-encoded string or an object
StringArguments  == [isstr |-> TRUE,  wellformed |-> TRUE,
                     value |-> {<<"query", "SBER">>}]
ObjectArguments  == [isstr |-> FALSE, wellformed |-> TRUE,
                     value |-> {<<"symbol", "SBER@MISX">>}]
BrokenArguments  == [isstr |-> TRUE,  wellformed |-> FALSE,
                     value |-> {<<"query", "SB">>}]

RegisteredTools == {"search_finam_instruments", "get_finam_quotes"}

\* the (name, arguments) pairs the model stub asks for
RequestedCalls ==
    << [name |-> "search_finam_instruments", arguments |-> StringArguments],
       [name |-> "get_finam_history", arguments |-> ObjectArguments],
       [name |-> "get_finam_quotes", arguments |-> BrokenArguments] >>

ToolCall(i, rc) ==
    [id |-> CallIds[i], function |-> [name |-> rc.name, arguments |-> rc.arguments]]

\* the tool_calls lists a reply may carry: 1..MaxToolCalls calls with
\* distinct ids, going round the requested calls from any of them
ToolCallLists ==
    { [i \in 1..n |->
         ToolCall(i, RequestedCalls[((first + i - 2) % Len(RequestedCalls)) + 1])]
      : n \in 1..MaxToolCalls, first \in 1..Len(RequestedCalls) }

\* message.content of a reply that carries tool calls, after `or ""`
ToolCallReplies ==
    { [tool_calls |-> l, content |-> IF Len(l) = 1 THEN "" ELSE "looking it up"]
      : l \in ToolCallLists }

\* usage reported by the backend with a reply
Usages == { [prompt_tokens |-> 100, completion_tokens |-> 20],
            [prompt_tokens |-> 40,  completion_tokens |-> 0] }

\* the backend stub reports one usage per reply: the smaller one with a
\* reply of several tool calls and with a reply of null content
UsagesOfToolCalls(reply) ==
    {u \in Usages : u.prompt_tokens = IF Len(reply.tool_calls) = 1 THEN 100 ELSE 40}

\* message.content of a reply: a text or null
NullContent == [isnull |-> TRUE, text |-> <<>>]
Content(t)  == [isnull |-> FALSE, text |-> t]

UsagesOfAnswer(content) ==
    {u \in Usages : u.prompt_tokens = IF content.isnull THEN 40 ELSE 100}

ScenarioA ==
    <<"G", "E", "T", " ", "/", "v", "1", "/", "i", "n", "s", "t", "r", "u", "m",
      "e", "n", "t", "s", "/", "S", "B", "E", "R", "@", "M", "I", "S", "X", "/",
      "q", "u", "o", "t", "e", "s", "/", "l", "a", "t", "e", "s", "t">>

Freeform == <<"P", "u", "t", " ", "s", "i", "m", "p", "l", "y", ":", " ", "n", "o">>

FinalTexts == TextsOf(1) \cup
    { ScenarioA, Freeform,
      <<" ", "p", "o", "s", "t", " ", "a", " ", "/", "v", "1", "\n">>,
      <<"s", "e", "e", " ", "a", "/", "b">> }

FinalContents == {Content(t) : t \in FinalTexts} \cup {NullContent}

\* what client.call_tool does for a tool: returns a JSON value or raises
ToolOutcomes(name) ==
    IF name \in RegisteredTools
    THEN { [raises |-> FALSE, key |-> "status", val |-> "success"],
           [raises |-> TRUE,  key |-> "error",  val |-> "timed out"] }
    ELSE { [raises |-> TRUE,  key |-> "error",  val |-> "Unknown tool"] }

----------------------------------------------------------------------------
(* calculate_cost, in units of 1e-8 dollar                                 *)

pricing(m) ==
    CASE m = "openai/gpt-4o-mini"        -> [prompt |-> 15,  completion |-> 60]
      [] m = "openai/gpt-4o"             -> [prompt |-> 250, completion |-> 1000]
      [] m = "openai/gpt-3.5-turbo"      -> [prompt |-> 50,  completion |-> 150]
      [] m = "anthropic/claude-3-sonnet" -> [prompt |-> 300, completion |-> 1500]
      [] m = "anthropic/claude-3-haiku"  -> [prompt |-> 25,  completion |-> 125]
      [] OTHER                           -> [prompt |-> 15,  completion |-> 60]

\* the cost of the prompt tokens alone
calculate_cost_PromptOnly(usage, m) ==
    usage.prompt_tokens * pricing(m).prompt

calculate_cost(usage, m) ==
    usage.prompt_tokens * pricing(m).prompt
        + usage.completion_tokens * pricing(m).completion

----------------------------------------------------------------------------
(* execute_tool_calls: the pieces of one tool round                        *)

EmptyObject == {}

\* the decoding that hands a string on as it came
ParsedArguments_NoDecode(args) == args.value

\* lines 208-214: json.loads of a string, the object itself otherwise,
\* {} when the string does not decode
ParsedArguments(args) ==
    IF args.isstr
    THEN IF args.wellformed THEN args.value ELSE EmptyObject
    ELSE args.value


\* the tool message whose error branch reports the text as a result
ToolResultMessage_ErrorAsStatus(tc, outcome) ==
    IF outcome.raises
    THEN Message("tool", json_dumps([key |-> "status", val |-> outcome.val]),
                 <<>>, tc.id, tc.function.name)
    ELSE Message("tool", json_dumps([key |-> outcome.key, val |-> outcome.val]),
                 <<>>, tc.id, tc.function.name)

\* the tool message whose error branch forgets the call id
ToolResultMessage_ErrorWithoutId(tc, outcome) ==
    IF outcome.raises
    THEN Message("tool", json_dumps([key |-> "error", val |-> outcome.val]),
                 <<>>, "", tc.function.name)
    ELSE Message("tool", json_dumps([key |-> outcome.key, val |-> outcome.val]),
                 <<>>, tc.id, tc.function.name)

\* lines 216-230: the tool message of one call, for a returned value or for
\* the exception the call raised
ToolResultMessage(tc, outcome) ==
    IF outcome.raises
    THEN Message("tool", json_dumps([key |-> "error", val |-> outcome.val]),
                 <<>>, tc.id, tc.function.name)
    ELSE Message("tool", json_dumps([key |-> outcome.key, val |-> outcome.val]),
                 <<>>, tc.id, tc.function.name)

\* the round that loses its last tool message
RoundMessages_DropsLastResult(content, calls, tool_results) ==
    <<Message("assistant", TextContent(content), calls, "", "")>>
        \o SubSeq(tool_results, 1, Len(tool_results) - 1)

\* lines 292-299: what a completed round appends to the conversation
RoundMessages(content, calls, tool_results) ==
    <<Message("assistant", TextContent(content), calls, "", "")>> \o tool_results

----------------------------------------------------------------------------
(* generate_api_call_with_mcp and generate_api_call                        *)

NoFinalText    == [received |-> FALSE, isnull |-> TRUE, text |-> <<>>]
Received(c)    == [received |-> TRUE, isnull |-> c.isnull, text |-> c.text]
NoResult       == [type |-> "", request |-> <<>>]
FallbackResult == [type |-> "GET", request |-> FallbackRequest]
\* the result record that drops the parsed method
ResultOf_DropsMethod(pair) == [type |-> "GET", request |-> pair[2]]


ResultOf(pair) == [type |-> pair[1], request |-> pair[2]]

\* the function runs on its own, or for the current question of the batch
McpRun  == mode = "mcp"  \/ (mode = "batch" /\ b_pc = "running" /\ use_mcp)
BaseRun == mode = "base" \/ (mode = "batch" /\ b_pc = "running" /\ ~use_mcp)

\* replies of the model stub; the batch is run against a smaller stub
RepliesOfModel ==
    IF mode = "batch" THEN {r \in ToolCallReplies : Len(r.tool_calls) = 1}
    ELSE ToolCallReplies

AnswersOfModel ==
    IF mode = "batch" THEN {Content(ScenarioA), Content(Freeform), NullContent}
    ELSE FinalContents

\* an external call in flight: the model call, or one tool call with the
\* arguments it was sent with
LLMCall == [kind |-> "llm", id |-> "", arguments |-> {}]
ToolCallInFlight(tc) ==
    [kind |-> "tool", id |-> tc.id,
     arguments |-> ParsedArguments(tc.function.arguments)]

\* a call that does not wait for the one before it
MayStart_WithoutWaiting(flight) == TRUE

\* every external call is awaited before the next statement runs
MayStart(flight) == flight = {}

\* the flag that is cleared only when the client closed cleanly
FlagAfterExit_WhenClosed(closed) == ~closed

\* mcp_client.py line 33: _connected = False, before the client is closed
FlagAfterExit(closed) == FALSE

\* the conversation that keeps only the system message and the last round
Extend_OnlyRound(history, messages) == <<history[1]>> \o messages

\* list.append of each message, lines 292-299
Extend(history, messages) == history \o messages

\* the token counts of the replies a run has received so far
NoTokens == [prompt_tokens |-> 0, completion_tokens |-> 0]

Billed(sofar, usage) ==
    [prompt_tokens     |-> sofar.prompt_tokens + usage.prompt_tokens,
     completion_tokens |-> sofar.completion_tokens + usage.completion_tokens]

CostIdle ==
    /\ billed = NoTokens
    /\ cost_log = <<>>
    /\ load_failed = FALSE

LoopIdle ==
    /\ pc = "idle"
    /\ question = ""
    /\ model = ""
    /\ max_iterations = 0
    /\ iteration = 0
    /\ conversation_history = <<>>
    /\ total_cost = 0
    /\ result = NoResult
    /\ caught = ""
    /\ escaped = FALSE
    /\ tool_calls = <<>>
    /\ assistant_content = ""
    /\ results = <<>>
    /\ connected = FALSE
    /\ llm_calls = 0
    /\ llm_failures = 0
    /\ tool_log = <<>>
    /\ final_text = NoFinalText
    /\ sent_messages = <<>>
    /\ in_flight = {}

InitCall ==
    /\ mode \in {"mcp", "base"}
    /\ pc = "entry"
    /\ \E a \in CallArguments : question = a.question /\ model = a.model
    /\ max_iterations \in 1..MaxIterations
    /\ iteration = 0
    /\ conversation_history = <<>>
    /\ total_cost = 0
    /\ result = NoResult
    /\ caught = ""
    /\ escaped = FALSE
    /\ tool_calls = <<>>
    /\ assistant_content = ""
    /\ results = <<>>
    /\ connected = FALSE
    /\ llm_calls = 0
    /\ llm_failures = 0
    /\ tool_log = <<>>
    /\ final_text = NoFinalText
    /\ sent_messages = <<>>
    /\ in_flight = {}

\* `return value, cost`: the conversation and the round's locals are gone;
\* iteration keeps the number of rounds that were completed
Return(value, cost) ==
    /\ result' = value
    /\ total_cost' = cost
    /\ pc' = "done"
    /\ conversation_history' = <<>>
    /\ iteration' = iteration
    /\ tool_calls' = <<>>
    /\ assistant_content' = ""
    /\ results' = <<>>
    /\ sent_messages' = <<>>
    /\ in_flight' = {}


\* no handler: the exception leaves the function
Raise_Propagates(exc, cost) ==
    /\ caught' = ""
    /\ escaped' = TRUE
    /\ Return(NoResult, cost)

\* a handler that goes on with the next iteration
Raise_Continue(exc, cost) ==
    /\ caught' = exc
    /\ escaped' = FALSE
    /\ pc' = "for"
    /\ iteration' = iteration + 1
    /\ total_cost' = cost
    /\ in_flight' = {}
    /\ UNCHANGED <<result, conversation_history, tool_calls, assistant_content,
                   results, sent_messages>>

\* lines 313-315: `except Exception as e` around the loop
Raise(exc, cost) ==
    /\ caught' = exc
    /\ escaped' = FALSE
    /\ Return(FallbackResult, cost)

\* lines 263-268
Enter ==
    /\ McpRun
    /\ pc = "entry"
    /\ conversation_history' = <<SystemMessage, UserMessage(question)>>
    /\ total_cost' = 0
    /\ pc' = "for"
    /\ iteration' = 0
    /\ billed' = NoTokens
    /\ UNCHANGED <<mode, trainVars, authVars, execVars, load_failed, cost_log, clientVars, serverVars, parseVars, chatVars, batchVars, llm_failures, question, model,
                   max_iterations, result, caught, escaped, tool_calls,
                   assistant_content, results, connected, llm_calls, tool_log,
                   final_text, sent_messages, in_flight>>

\* lines 271-277: the request of the round leaves with the conversation
CallLLM ==
    /\ McpRun
    /\ pc = "for"
    /\ iteration < max_iterations
    /\ MayStart(in_flight)
    /\ sent_messages' = conversation_history
    /\ in_flight' = in_flight \cup {LLMCall}
    /\ llm_calls' = llm_calls + 1
    /\ pc' = "llm"
    /\ UNCHANGED <<mode, trainVars, authVars, execVars, load_failed, costVars, clientVars, serverVars, parseVars, chatVars, batchVars, llm_failures, question, model,
                   max_iterations, iteration, conversation_history, total_cost,
                   result, caught, escaped, tool_calls, assistant_content,
                   results, connected, tool_log, final_text>>

\* llm.py 85-94: the request fails (network error, timeout, HTTP error status)
LLMFails ==
    /\ McpRun
    /\ pc = "llm"
    /\ llm_failures' = llm_failures + 1
    /\ Raise("RequestException", total_cost)
    /\ UNCHANGED <<mode, trainVars, authVars, execVars, load_failed, costVars, clientVars, serverVars, parseVars, chatVars, batchVars, question, model, max_iterations,
                   connected, llm_calls, tool_log, final_text>>

\* the reply whose assistant message is appended before its calls are run
LLMRequestsTools_AppendsFirst ==
    /\ McpRun
    /\ pc = "llm"
    /\ \E reply \in RepliesOfModel : \E usage \in UsagesOfToolCalls(reply) :
          /\ total_cost' = total_cost + calculate_cost(usage, model)
          /\ billed' = Billed(billed, usage)
          /\ tool_calls' = reply.tool_calls
          /\ assistant_content' = reply.content
          /\ conversation_history' =
                Extend(conversation_history,
                       RoundMessages(reply.content, reply.tool_calls, <<>>))
    /\ in_flight' = in_flight \ {LLMCall}
    /\ results' = <<>>
    /\ tool_log' = <<>>
    /\ pc' = "aenter"
    /\ UNCHANGED <<mode, trainVars, authVars, execVars, load_failed, cost_log, clientVars, serverVars, parseVars, chatVars, batchVars, llm_failures, question, model,
                   max_iterations, iteration, result, caught,
                   escaped, connected, llm_calls, final_text, sent_messages>>

\* lines 279-289: a reply that carries tool calls
LLMRequestsTools ==
    /\ McpRun
    /\ pc = "llm"
    /\ \E reply \in RepliesOfModel : \E usage \in UsagesOfToolCalls(reply) :
          /\ total_cost' = total_cost + calculate_cost(usage, model)
          /\ billed' = Billed(billed, usage)
          /\ tool_calls' = reply.tool_calls
          /\ assistant_content' = reply.content
    /\ in_flight' = in_flight \ {LLMCall}
    /\ results' = <<>>
    /\ tool_log' = <<>>
    /\ pc' = "aenter"
    /\ UNCHANGED <<mode, trainVars, authVars, execVars, load_failed, cost_log, clientVars, serverVars, parseVars, chatVars, batchVars, llm_failures, question, model,
                   max_iterations, iteration, conversation_history, result, caught,
                   escaped, connected, llm_calls, final_text, sent_messages>>

\* lines 279-284, 304-308: a reply without tool calls
LLMAnswers ==
    /\ McpRun
    /\ pc = "llm"
    /\ \E content \in AnswersOfModel : \E usage \in UsagesOfAnswer(content) :
          /\ final_text' = Received(content)
          /\ billed' = Billed(billed, usage)
          /\ IF content.isnull
             THEN Raise("AttributeError",
                        total_cost + calculate_cost(usage, model))
             ELSE /\ Return(ResultOf(parse_llm_response(strip(content.text))),
                            total_cost + calculate_cost(usage, model))
                  /\ UNCHANGED <<caught, escaped>>
    /\ UNCHANGED <<mode, trainVars, authVars, execVars, load_failed, cost_log, clientVars, serverVars, parseVars, chatVars, batchVars, llm_failures, question, model,
                   max_iterations, connected, llm_calls, tool_log>>

\* line 311: the loop ran out
Exhausted ==
    /\ McpRun
    /\ pc = "for"
    /\ iteration >= max_iterations
    /\ Return(FallbackResult, total_cost)
    /\ UNCHANGED <<mode, trainVars, authVars, execVars, load_failed, costVars, clientVars, serverVars, parseVars, chatVars, batchVars, llm_failures, question, model,
                   max_iterations, caught, escaped, connected, llm_calls, tool_log,
                   final_text>>

\* mcp_client.py 25-29 under line 204: the connection opens, or opening raises
\* and the exception leaves execute_tool_calls
ClientEnter ==
    /\ McpRun
    /\ pc = "aenter"
    /\ \/ /\ connected' = TRUE
          /\ pc' = "call_tool"
          /\ UNCHANGED <<conversation_history, total_cost, result, caught,
                         escaped, iteration, tool_calls, assistant_content,
                         results, sent_messages, in_flight>>
       \/ /\ Raise("ConnectError", total_cost)
          /\ UNCHANGED connected
    /\ UNCHANGED <<mode, trainVars, authVars, execVars, load_failed, costVars, clientVars, serverVars, parseVars, chatVars, batchVars, llm_failures, question, model,
                   max_iterations, llm_calls, tool_log, final_text>>

\* lines 205-217: the arguments of the next tool call of the list are
\* decoded and the call is sent
StartTool ==
    /\ McpRun
    /\ pc = "call_tool"
    /\ MayStart(in_flight)
    /\ Len(results) + Cardinality(in_flight) < Len(tool_calls)
    /\ LET tc == tool_calls[Len(results) + Cardinality(in_flight) + 1]
       IN  in_flight' = in_flight \cup {ToolCallInFlight(tc)}
    /\ UNCHANGED <<mode, trainVars, authVars, execVars, load_failed, costVars, clientVars, serverVars, parseVars, chatVars, batchVars, llm_failures, pc, question, model,
                   max_iterations, iteration, conversation_history, total_cost,
                   result, caught, escaped, tool_calls, assistant_content,
                   results, connected, llm_calls, tool_log, final_text,
                   sent_messages>>

\* lines 217-230: the call returns or raises, and its tool message is appended
CallTool ==
    /\ McpRun
    /\ pc = "call_tool"
    /\ \E f \in in_flight :
          /\ f.kind = "tool"
          /\ LET tc == CHOOSE c \in {tool_calls[i] : i \in 1..Len(tool_calls)} :
                          c.id = f.id
             IN  \E outcome \in ToolOutcomes(tc.function.name) :
                    /\ results' = Append(results, ToolResultMessage(tc, outcome))
                    /\ tool_log' = Append(tool_log,
                                      [name |-> tc.function.name,
                                       arguments |-> f.arguments,
                                       raised |-> outcome.raises])
          /\ in_flight' = in_flight \ {f}
    /\ UNCHANGED <<mode, trainVars, authVars, execVars, load_failed, costVars, clientVars, serverVars, parseVars, chatVars, batchVars, llm_failures, pc, question, model,
                   max_iterations, iteration, conversation_history, total_cost,
                   result, caught, escaped, tool_calls, assistant_content,
                   connected, llm_calls, final_text, sent_messages>>

\* mcp_client.py 31-34, then lines 232 and 292-302: the connection closes and
\* the round is appended, or closing raises
ClientExit ==
    /\ McpRun
    /\ pc = "call_tool"
    /\ Len(results) = Len(tool_calls)
    /\ \/ /\ connected' = FlagAfterExit(TRUE)
          /\ conversation_history' =
                 Extend(conversation_history,
                        RoundMessages(assistant_content, tool_calls, results))
          /\ iteration' = iteration + 1
          /\ pc' = "for"
          /\ tool_calls' = <<>>
          /\ assistant_content' = ""
          /\ results' = <<>>
          /\ UNCHANGED <<total_cost, result, caught, escaped, sent_messages,
                         in_flight>>
       \/ /\ connected' = FlagAfterExit(FALSE)
          /\ Raise("CloseError", total_cost)
    /\ UNCHANGED <<mode, trainVars, authVars, execVars, load_failed, costVars, clientVars, serverVars, parseVars, chatVars, batchVars, llm_failures, question, model,
                   max_iterations, llm_calls, tool_log, final_text>>

\* generate_api_call, lines 324-343: one model call without tools
BaseCall ==
    /\ BaseRun
    /\ pc = "entry"
    /\ llm_calls' = llm_calls + 1
    /\ \/ /\ Raise("RequestException", 0)
          /\ llm_failures' = llm_failures + 1
          /\ UNCHANGED final_text
       \/ \E content \in AnswersOfModel : \E usage \in UsagesOfAnswer(content) :
             /\ final_text' = Received(content)
             /\ UNCHANGED llm_failures
             /\ IF content.isnull
                THEN Raise("AttributeError", 0)
                ELSE /\ Return(ResultOf(parse_llm_response(strip(content.text))),
                               calculate_cost(usage, model))
                     /\ UNCHANGED <<caught, escaped>>
    /\ UNCHANGED <<mode, trainVars, authVars, execVars, load_failed, costVars, clientVars, serverVars, parseVars, chatVars, batchVars, question, model, max_iterations,
                   connected, tool_log>>

----------------------------------------------------------------------------
(* main: the batch driver                                                  *)

MaxQuestions == 2   \* most rows of test.csv

Uids == <<"uid-1", "uid-2", "uid-3", "uid-4">>

\* the test files tried: 0..MaxQuestions rows, each with its own uid
TestFiles ==
    { [i \in 1..n |-> [uid |-> Uids[i],
                       question |-> IF i % 2 = 1 THEN "Kakaya cena Sberbanka?" ELSE ""]]
      : n \in 0..MaxQuestions }

\* what load_mcp_tools returns when the server answers
ServerTools == <<"search_finam_instruments", "get_finam_quotes">>

NoFile == [written |-> FALSE, rows |-> <<>>]

BatchIdle ==
    /\ b_pc = "none"
    /\ use_mcp = FALSE
    /\ tools = <<>>
    /\ test_questions = <<>>
    /\ item = 0
    /\ main_results = <<>>
    /\ main_total_cost = 0
    /\ output_file = NoFile
    /\ main_raised = ""

\* lines 375-397: the options, and the model of the settings
InitBatch ==
    /\ mode = "batch"
    /\ b_pc = "load_tools"
    /\ use_mcp \in BOOLEAN
    /\ tools = <<>>
    /\ test_questions \in TestFiles
    /\ item = 0
    /\ main_results = <<>>
    /\ main_total_cost = 0
    /\ output_file = NoFile
    /\ main_raised = ""
    /\ pc = "idle"
    /\ question = ""
    /\ model \in {a.model : a \in CallArguments}
    /\ max_iterations \in 1..MaxIterations
    /\ iteration = 0
    /\ conversation_history = <<>>
    /\ total_cost = 0
    /\ result = NoResult
    /\ caught = ""
    /\ escaped = FALSE
    /\ tool_calls = <<>>
    /\ assistant_content = ""
    /\ results = <<>>
    /\ connected = FALSE
    /\ llm_calls = 0
    /\ llm_failures = 0
    /\ tool_log = <<>>
    /\ final_text = NoFinalText
    /\ sent_messages = <<>>
    /\ in_flight = {}

\* the load whose failure leaves the batch in tool mode with no tools
LoadTools_KeepsMcp ==
    /\ mode = "batch"
    /\ b_pc = "load_tools"
    /\ IF use_mcp
       THEN \/ tools' = ServerTools /\ UNCHANGED <<use_mcp, load_failed>>
            \/ tools' = <<>> /\ use_mcp' = TRUE /\ load_failed' = TRUE
       ELSE UNCHANGED <<tools, use_mcp, load_failed>>
    /\ b_pc' = "next"
    /\ UNCHANGED <<mode, trainVars, authVars, execVars, costVars, clientVars, serverVars, parseVars, chatVars, loopVars, test_questions, item, main_results,
                   main_total_cost, output_file, main_raised>>

\* lines 399-420: load the tools when asked to, fall back to base mode when
\* loading fails; read test.csv
LoadTools ==
    /\ mode = "batch"
    /\ b_pc = "load_tools"
    /\ IF use_mcp
       THEN \/ tools' = ServerTools /\ UNCHANGED <<use_mcp, load_failed>>
            \/ tools' = <<>> /\ use_mcp' = FALSE /\ load_failed' = TRUE
       ELSE UNCHANGED <<tools, use_mcp, load_failed>>
    /\ b_pc' = "next"
    /\ UNCHANGED <<mode, trainVars, authVars, execVars, costVars, clientVars, serverVars, parseVars, chatVars, loopVars, test_questions, item, main_results,
                   main_total_cost, output_file, main_raised>>

\* every question answered with the first row's text
QuestionOf_First(items, i) == items[1].question

\* line 434: item["question"]
QuestionOf(items, i) == items[i].question

\* lines 431-446: the next question is handed to the generator
StartQuestion ==
    /\ mode = "batch"
    /\ b_pc = "next"
    /\ item < Len(test_questions)
    /\ item' = item + 1
    /\ question' = QuestionOf(test_questions, item + 1)
    /\ pc' = "entry"
    /\ b_pc' = "running"
    /\ UNCHANGED <<mode, trainVars, authVars, execVars, load_failed, costVars, clientVars, serverVars, parseVars, chatVars, model, max_iterations, iteration,
                   conversation_history, total_cost, result, caught, escaped,
                   tool_calls, assistant_content, results, connected, llm_calls,
                   llm_failures, tool_log, final_text, sent_messages,
                   in_flight, use_mcp, tools,
                   test_questions, main_results, main_total_cost, output_file,
                   main_raised>>

\* lines 448-449: the returned pair is added to the total and to the rows;
\* the generator's frame is gone
Collect ==
    /\ mode = "batch"
    /\ b_pc = "running"
    /\ pc = "done"
    /\ IF escaped
       THEN /\ main_raised' = "Exception"
            /\ b_pc' = "crashed"
            /\ UNCHANGED <<main_results, main_total_cost, cost_log>>
       ELSE /\ main_total_cost' = main_total_cost + total_cost
            /\ cost_log' = Append(cost_log, total_cost)
            /\ main_results' = Append(main_results,
                                  [uid     |-> test_questions[item].uid,
                                   type    |-> result.type,
                                   request |-> result.request])
            /\ b_pc' = "next"
            /\ UNCHANGED main_raised
    /\ pc' = "idle"
    /\ question' = ""
    /\ iteration' = 0
    /\ total_cost' = 0
    /\ billed' = NoTokens
    /\ result' = NoResult
    /\ caught' = ""
    /\ escaped' = FALSE
    /\ llm_calls' = 0
    /\ llm_failures' = 0
    /\ tool_log' = <<>>
    /\ final_text' = NoFinalText
    /\ UNCHANGED <<mode, trainVars, authVars, execVars, load_failed, clientVars, serverVars, parseVars, chatVars, model, max_iterations, conversation_history,
                   sent_messages, in_flight, tool_calls, assistant_content, results, connected, use_mcp,
                   tools, test_questions, item, output_file>>

\* lines 454-471: the rows are written, then the statistics are printed;
\* line 465 divides by the number of rows
WriteOutput ==
    /\ mode = "batch"
    /\ b_pc = "next"
    /\ item = Len(test_questions)
    /\ output_file' = [written |-> TRUE, rows |-> main_results]
    /\ main_raised' = IF Len(main_results) = 0 THEN "ZeroDivisionError" ELSE ""
    /\ b_pc' = "finished"
    /\ UNCHANGED <<mode, trainVars, authVars, execVars, load_failed, costVars, clientVars, serverVars, parseVars, chatVars, loopVars, use_mcp, tools, test_questions,
                   item, main_results, main_total_cost>>

----------------------------------------------------------------------------
(* The chat drivers: the interactive loop of chat_cli_adv.py, the          *)
(* Streamlit page of chat_app.py and process_single_query                  *)

MaxTurns      == 2   \* most lines read at the prompt in one session
MaxChatRounds == 5   \* most tool rounds the model stub asks for in one session

ChatMaxIterations == 5   \* line 219: max_iterations = 5

ChatDrivers == {"cli", "streamlit", "single"}

\* the line compared as it was typed
lower_AsTyped(line) == line

\* str.lower() of the lines tried at the prompt
lower(line) ==
    CASE line = "Clear" -> "clear"
      [] line = "EXIT"  -> "exit"
      [] OTHER          -> line

\* the lines tried: the commands, in some spellings, and a question
UserInputs == {"EXIT", "quit", "Clear", "tools", "Kakaya cena Sberbanka?"}

\* what the Streamlit page receives: a text in the chat input, or the
\* "clear history" button
StreamlitInputs == {"Kakaya cena Sberbanka?", "button:clear"}

ChatSystemMessage == Message("system", TextContent("create_system_prompt"),
                             <<>>, "", "")

\* the tool calls the model stub asks for: two calls in the command-line
\* session, one call to an unregistered tool in the other two drivers
ChatToolCalls ==
    IF driver = "cli"
    THEN <<ToolCall(1, [name |-> "search_finam_instruments",
                        arguments |-> StringArguments]),
           ToolCall(2, [name |-> "get_finam_history", arguments |-> ObjectArguments])>>
    ELSE <<ToolCall(1, [name |-> "get_finam_history", arguments |-> ObjectArguments])>>

\* message.content of a reply without tool calls: a text, "" or null
ChatAnswers == {Content(<<"o", "k">>), Content(<<>>), NullContent}

ChatIdle ==
    /\ c_pc = "none"
    /\ user_input = ""
    /\ echoed = <<>>
    /\ turns = 0
    /\ session_rounds = 0
    /\ driver = "none"
    /\ st_messages = <<>>

\* chat_cli_adv.py line 191 and chat_app.py lines 140-141: a session starts
\* with the system message, or with no message; process_single_query, lines
\* 88-93, starts in its loop with the system message and the query
InitChat ==
    /\ mode = "chat"
    /\ driver \in ChatDrivers
    /\ c_pc = IF driver = "single" THEN "while" ELSE "prompt"
    /\ user_input = IF driver = "single" THEN "Kakaya cena Sberbanka?" ELSE ""
    /\ echoed = <<>>
    /\ turns = IF driver = "single" THEN 1 ELSE 0
    /\ session_rounds = 0
    /\ st_messages = <<>>
    /\ conversation_history =
          CASE driver = "cli"       -> <<ChatSystemMessage>>
            [] driver = "streamlit" -> <<>>
            [] driver = "single"    -> <<ChatSystemMessage, UserMessage(user_input)>>
    /\ pc = "idle"
    /\ question = ""
    /\ model = ""
    /\ max_iterations = ChatMaxIterations
    /\ iteration = 0
    /\ total_cost = 0
    /\ result = NoResult
    /\ caught = ""
    /\ escaped = FALSE
    /\ tool_calls = <<>>
    /\ assistant_content = ""
    /\ results = <<>>
    /\ connected = FALSE
    /\ llm_calls = 0
    /\ llm_failures = 0
    /\ tool_log = <<>>
    /\ final_text = NoFinalText
    /\ sent_messages = <<>>
    /\ in_flight = {}

\* the conversation a driver holds once a turn is over: the command-line
\* session keeps its list, the other two build theirs anew for each turn
AfterTurn(history) == IF driver = "cli" THEN history ELSE <<>>

\* a handler that ends the session
ChatError_Exits(exc) ==
    /\ caught' = exc
    /\ escaped' = FALSE
    /\ echoed' = Append(echoed, "error")
    /\ c_pc' = "exited"
    /\ conversation_history' = AfterTurn(conversation_history)
    /\ tool_calls' = <<>>
    /\ assistant_content' = ""
    /\ results' = <<>>
    /\ tool_log' = <<>>
    /\ UNCHANGED st_messages

\* chat_cli_adv.py lines 279-283 and chat_app.py lines 279-282: except
\* Exception: the error is displayed and the session goes on;
\* process_single_query has no handler and the exception leaves it
ChatError(exc) ==
    /\ caught' = IF driver = "single" THEN "" ELSE exc
    /\ escaped' = (driver = "single")
    /\ echoed' = IF driver = "single" THEN echoed ELSE Append(echoed, "error")
    /\ c_pc' = IF driver = "single" THEN "crashed" ELSE "prompt"
    /\ conversation_history' = AfterTurn(conversation_history)
    /\ tool_calls' = <<>>
    /\ assistant_content' = ""
    /\ results' = <<>>
    /\ tool_log' = <<>>
    /\ UNCHANGED st_messages

\* chat_cli_adv.py lines 273-274 and chat_app.py lines 276-277, reached when
\* the while loop is left, by its condition or by break
AfterWhile(shown, iter) ==
    IF iter >= max_iterations THEN Append(shown, "max_iterations") ELSE shown

\* chat_cli_adv.py lines 194-220: a line is read; a command is carried out,
\* anything else is appended as the user message of a new turn; Ctrl-C ends
\* the session
CliPrompt ==
    \/ /\ user_input' = "KeyboardInterrupt"
       /\ echoed' = <<"bye">>
       /\ c_pc' = "exited"
       /\ UNCHANGED <<conversation_history, iteration, llm_calls, caught>>
    \/ \E line \in UserInputs :
          /\ user_input' = line
          /\ caught' = ""
          /\ IF lower(line) \in {"exit", "quit"}
             THEN /\ echoed' = <<"bye">>
                  /\ c_pc' = "exited"
                  /\ UNCHANGED <<conversation_history, iteration, llm_calls>>
             ELSE IF lower(line) = "clear"
             THEN /\ conversation_history' = <<ChatSystemMessage>>
                  /\ echoed' = <<"cleared">>
                  /\ c_pc' = "prompt"
                  /\ UNCHANGED <<iteration, llm_calls>>
             ELSE IF lower(line) = "tools"
             THEN /\ echoed' = <<"tools">>
                  /\ c_pc' = "prompt"
                  /\ UNCHANGED <<conversation_history, iteration, llm_calls>>
             ELSE /\ conversation_history' =
                        Append(conversation_history, UserMessage(line))
                  /\ echoed' = <<>>
                  /\ iteration' = 0
                  /\ llm_calls' = 0
                  /\ c_pc' = "while"

\* the page that rebuilds the conversation from the stored user messages only
StreamlitPrompt_UserMessagesOnly ==
    \E line \in StreamlitInputs :
       /\ user_input' = line
       /\ caught' = ""
       /\ IF line = "button:clear"
          THEN /\ st_messages' = <<>>
               /\ echoed' = <<>>
               /\ c_pc' = "prompt"
               /\ UNCHANGED <<conversation_history, iteration, llm_calls>>
          ELSE /\ st_messages' = Append(st_messages, UserMessage(line))
               /\ conversation_history' =
                    <<ChatSystemMessage>> \o SelectSeq(st_messages', LAMBDA m : m.role = "user")
               /\ echoed' = <<>>
               /\ iteration' = 0
               /\ llm_calls' = 0
               /\ c_pc' = "while"

\* chat_app.py lines 123-126 and 188-214: the button empties the stored
\* messages; a text is stored as the user message and the conversation of
\* the turn is built from the system message and the stored messages
StreamlitPrompt ==
    \E line \in StreamlitInputs :
       /\ user_input' = line
       /\ caught' = ""
       /\ IF line = "button:clear"
          THEN /\ st_messages' = <<>>
               /\ echoed' = <<>>
               /\ c_pc' = "prompt"
               /\ UNCHANGED <<conversation_history, iteration, llm_calls>>
          ELSE /\ st_messages' = Append(st_messages, UserMessage(line))
               /\ conversation_history' = <<ChatSystemMessage>> \o st_messages'
               /\ echoed' = <<>>
               /\ iteration' = 0
               /\ llm_calls' = 0
               /\ c_pc' = "while"

ChatPrompt ==
    /\ mode = "chat"
    /\ c_pc = "prompt"
    /\ turns < MaxTurns
    /\ turns' = turns + 1
    /\ final_text' = NoFinalText
    /\ \/ driver = "cli" /\ CliPrompt /\ UNCHANGED st_messages
       \/ driver = "streamlit" /\ StreamlitPrompt
    /\ UNCHANGED <<mode, trainVars, authVars, execVars, load_failed, costVars, clientVars, serverVars, parseVars, batchVars, session_rounds, driver, pc, question,
                   model, max_iterations, total_cost, result, escaped,
                   tool_calls, assistant_content, results, connected,
                   llm_failures, tool_log,
                   sent_messages, in_flight>>

\* the model call of the round, llm.py 85-94, fails
ChatLLMFails ==
    /\ mode = "chat"
    /\ c_pc = "while"
    /\ iteration < max_iterations
    /\ iteration' = iteration + 1
    /\ llm_calls' = llm_calls + 1
    /\ llm_failures' = llm_failures + 1
    /\ ChatError("RequestException")
    /\ UNCHANGED <<mode, trainVars, authVars, execVars, load_failed, costVars, clientVars, serverVars, parseVars, batchVars, user_input, turns, session_rounds,
                   driver, pc, question, model, max_iterations,
                   total_cost, result, connected, final_text,
                   sent_messages, in_flight>>

\* a reply that carries tool calls
ChatLLMRequestsTools ==
    /\ mode = "chat"
    /\ c_pc = "while"
    /\ iteration < max_iterations
    /\ session_rounds < MaxChatRounds
    /\ session_rounds' = session_rounds + 1
    /\ iteration' = iteration + 1
    /\ llm_calls' = llm_calls + 1
    /\ tool_calls' = ChatToolCalls
    /\ assistant_content' = ""
    /\ results' = <<>>
    /\ tool_log' = <<>>
    /\ c_pc' = "aenter"
    /\ UNCHANGED <<mode, trainVars, authVars, execVars, load_failed, costVars, clientVars, serverVars, parseVars, batchVars, user_input, echoed, turns, driver,
                   st_messages, pc,
                   question, model, max_iterations, conversation_history,
                   total_cost, result, caught, escaped, connected, llm_failures,
                   final_text,
                   sent_messages, in_flight>>

\* a reply without tool calls.  chat_cli_adv.py lines 259-274 and chat_app.py
\* lines 262-277: a non-empty text is displayed and kept, and the loop is
\* left by break; process_single_query, lines 125-127 and 172-174: the
\* content is returned and displayed
ChatLLMAnswers ==
    /\ mode = "chat"
    /\ c_pc = "while"
    /\ iteration < max_iterations
    /\ iteration' = iteration + 1
    /\ llm_calls' = llm_calls + 1
    /\ \E content \in ChatAnswers :
          /\ final_text' = Received(content)
          /\ LET shown == ~content.isnull /\ content.text # <<>>
                 reply == Message("assistant", TextContent(content.text), <<>>, "", "")
                 display == IF shown THEN Append(echoed, "answer") ELSE echoed
             IN  CASE driver = "cli" ->
                        /\ conversation_history' =
                              IF shown THEN Append(conversation_history, reply)
                              ELSE conversation_history
                        /\ echoed' = AfterWhile(display, iteration + 1)
                        /\ c_pc' = "prompt"
                        /\ UNCHANGED st_messages
                   [] driver = "streamlit" ->
                        /\ st_messages' = IF shown THEN Append(st_messages, reply) ELSE st_messages
                        /\ conversation_history' = AfterTurn(conversation_history)
                        /\ echoed' = AfterWhile(display, iteration + 1)
                        /\ c_pc' = "prompt"
                   [] driver = "single" ->
                        /\ conversation_history' = AfterTurn(conversation_history)
                        /\ echoed' = Append(echoed, "answer")
                        /\ c_pc' = "exited"
                        /\ UNCHANGED st_messages
    /\ UNCHANGED <<mode, trainVars, authVars, execVars, load_failed, costVars, clientVars, serverVars, parseVars, batchVars, user_input, turns, session_rounds,
                   driver, pc, question, model, max_iterations, total_cost, result,
                   caught, escaped, tool_calls, assistant_content, results,
                   connected, llm_failures, tool_log,
                   sent_messages, in_flight>>

\* mcp_client.py 25-29 under `async with MCPClient`: the connection opens,
\* or opening raises
ChatClientEnter ==
    /\ mode = "chat"
    /\ c_pc = "aenter"
    /\ \/ /\ connected' = TRUE
          /\ c_pc' = "call_tool"
          /\ UNCHANGED <<caught, escaped, echoed, tool_calls, assistant_content,
                         results, tool_log, conversation_history, st_messages>>
       \/ /\ ChatError("ConnectError")
          /\ UNCHANGED connected
    /\ UNCHANGED <<mode, trainVars, authVars, execVars, load_failed, costVars, clientVars, serverVars, parseVars, batchVars, user_input, turns, session_rounds,
                   driver, pc, question, model, max_iterations, iteration,
                   total_cost, result, llm_calls,
                   llm_failures, final_text,
                   sent_messages, in_flight>>

\* execute_tool_calls of the driver: the next tool call of the list
ChatCallTool ==
    /\ mode = "chat"
    /\ c_pc = "call_tool"
    /\ Len(results) < Len(tool_calls)
    /\ LET tc == tool_calls[Len(results) + 1]
       IN  \E outcome \in ToolOutcomes(tc.function.name) :
              /\ results' = Append(results, ToolResultMessage(tc, outcome))
              /\ tool_log' = Append(tool_log,
                                [name |-> tc.function.name,
                                 arguments |-> ParsedArguments(tc.function.arguments),
                                 raised |-> outcome.raises])
    /\ UNCHANGED <<mode, trainVars, authVars, execVars, load_failed, costVars, clientVars, serverVars, parseVars, batchVars, chatVars, pc, question, model,
                   max_iterations, iteration, conversation_history, total_cost,
                   result, caught, escaped, tool_calls, assistant_content,
                   connected, llm_calls, llm_failures, final_text,
                   sent_messages, in_flight>>

\* mcp_client.py 31-34, then the round is appended and the loop condition is
\* tested; or closing raises.  When the loop runs out, the two sessions give
\* their warning and process_single_query returns its own, line 129
ChatClientExit ==
    /\ mode = "chat"
    /\ c_pc = "call_tool"
    /\ Len(results) = Len(tool_calls)
    /\ \/ /\ connected' = FlagAfterExit(TRUE)
          /\ tool_calls' = <<>>
          /\ assistant_content' = ""
          /\ results' = <<>>
          /\ tool_log' = <<>>
          /\ LET history == conversation_history \o
                              RoundMessages(assistant_content, tool_calls, results)
             IN  IF iteration < max_iterations
                 THEN /\ c_pc' = "while"
                      /\ conversation_history' = history
                      /\ UNCHANGED echoed
                 ELSE /\ c_pc' = IF driver = "single" THEN "exited" ELSE "prompt"
                      /\ conversation_history' = AfterTurn(history)
                      /\ echoed' = IF driver = "single"
                                   THEN Append(echoed, "max_iterations")
                                   ELSE AfterWhile(echoed, iteration)
          /\ UNCHANGED <<caught, escaped, st_messages>>
       \/ /\ connected' = FlagAfterExit(FALSE)
          /\ ChatError("CloseError")
    /\ UNCHANGED <<mode, trainVars, authVars, execVars, load_failed, costVars, clientVars, serverVars, parseVars, batchVars, user_input, turns, session_rounds,
                   driver, pc, question, model, max_iterations, iteration, total_cost,
                   result, llm_calls, llm_failures, final_text,
                   sent_messages, in_flight>>

----------------------------------------------------------------------------
(* mcp_client.py: one MCPClient instance, its tool list and the conversion *)
(* of the list to the format of the model                                  *)

MaxListCalls == 3   \* most list_tools / get_openai_tools calls on the instance

NoneValue == "None"

\* Tool objects as the client library hands them over: description may be
\* None, and line 60 asks whether the attribute inputSchema is there
QuotesTool ==
    [name |-> "get_finam_quotes", description |-> "quotes of an instrument",
     hasInputSchema |-> TRUE, inputSchema |-> "object(symbol: string)"]
CheckTool ==
    [name |-> "check_finam_api", description |-> NoneValue,
     hasInputSchema |-> TRUE, inputSchema |-> "object()"]
BareTool ==
    [name |-> "refresh_jwt_token", description |-> "refresh",
     hasInputSchema |-> FALSE, inputSchema |-> NoneValue]

\* what self._client.list_tools() does when it is asked: raises, or returns
\* the tools the server has at that moment
ListOutcomes ==
    { [raises |-> TRUE, tools |-> <<>>] } \cup
    { [raises |-> FALSE, tools |-> l]
      : l \in { <<>>, <<QuotesTool, CheckTool>>, <<CheckTool, QuotesTool>>,
                <<BareTool, QuotesTool>> } }

\* lines 56-61: the dict of one tool
ToolDict(tool) ==
    LET d == IF tool.description = NoneValue THEN "" ELSE tool.description
    IN  IF tool.hasInputSchema
        THEN [name |-> tool.name, description |-> d, inputSchema |-> tool.inputSchema]
        ELSE [name |-> tool.name, description |-> d]

NoCache == [isnone |-> TRUE, list |-> <<>>]
Cached(l) == [isnone |-> FALSE, list |-> l]

\* the cache that is consulted only when it holds a tool
list_tools_CacheIfNonEmpty(cache, outcome) ==
    IF ~cache.isnone /\ cache.list # <<>>
    THEN [cache |-> cache, value |-> cache.list, raised |-> FALSE, asked |-> FALSE]
    ELSE IF outcome.raises
    THEN [cache |-> cache, value |-> <<>>, raised |-> TRUE, asked |-> TRUE]
    ELSE LET l == [i \in 1..Len(outcome.tools) |-> ToolDict(outcome.tools[i])]
         IN  [cache |-> Cached(l), value |-> l, raised |-> FALSE, asked |-> TRUE]

\* lines 47-64: the cached list when there is one; otherwise the server is
\* asked, and its answer is converted, cached and returned
list_tools(cache, outcome) ==
    IF ~cache.isnone
    THEN [cache |-> cache, value |-> cache.list, raised |-> FALSE, asked |-> FALSE]
    ELSE IF outcome.raises
    THEN [cache |-> cache, value |-> <<>>, raised |-> TRUE, asked |-> TRUE]
    ELSE LET l == [i \in 1..Len(outcome.tools) |-> ToolDict(outcome.tools[i])]
         IN  [cache |-> Cached(l), value |-> l, raised |-> FALSE, asked |-> TRUE]

\* lines 109-119: the entry of one tool
OpenAITool(tool) ==
    LET d == IF "description" \in DOMAIN tool THEN tool.description ELSE ""
    IN  [type |-> "function",
         function |->
            IF "inputSchema" \in DOMAIN tool
            THEN [name |-> tool.name, description |-> d,
                  parameters |-> tool.inputSchema]
            ELSE [name |-> tool.name, description |-> d]]

\* the conversion that puts each entry in front of the ones before it
convert_to_openai_tools_Prepends(tools_in) ==
    [i \in 1..Len(tools_in) |-> OpenAITool(tools_in[Len(tools_in) + 1 - i])]

\* lines 106-123: one entry per tool, appended in the order of the list
convert_to_openai_tools(tools_in) ==
    [i \in 1..Len(tools_in) |-> OpenAITool(tools_in[i])]

\* the lists convert_to_openai_tools is given directly
ToolDictLists ==
    { <<>>,
      <<ToolDict(QuotesTool), ToolDict(CheckTool)>>,
      <<ToolDict(CheckTool), [name |-> "get_finam_orders"], ToolDict(BareTool)>> }

NoTools == [set |-> FALSE, list |-> <<>>]

ClientIdle ==
    /\ tools_cache = NoCache
    /\ fetches = 0
    /\ returned = <<>>
    /\ mcp_tools = <<>>
    /\ openai_tools = NoTools

\* lines 14-23: a new instance has no cached list
InitClient ==
    /\ mode = "client"
    /\ tools_cache = NoCache
    /\ fetches = 0
    /\ returned = <<>>
    /\ mcp_tools \in ToolDictLists
    /\ openai_tools = NoTools

\* list_tools is called on the instance
ListTools ==
    /\ mode = "client"
    /\ Len(returned) < MaxListCalls
    /\ \E outcome \in ListOutcomes :
          LET r == list_tools(tools_cache, outcome)
          IN  /\ tools_cache' = r.cache
              /\ fetches' = IF r.asked THEN fetches + 1 ELSE fetches
              /\ returned' = Append(returned, [raised |-> r.raised, value |-> r.value,
                                               asked |-> r.asked])
    /\ UNCHANGED <<mode, trainVars, authVars, execVars, load_failed, costVars, serverVars, parseVars, loopVars, batchVars, chatVars, mcp_tools,
                   openai_tools>>

\* lines 125-133: get_openai_tools, list_tools followed by the conversion
GetOpenAITools ==
    /\ mode = "client"
    /\ Len(returned) < MaxListCalls
    /\ \E outcome \in ListOutcomes :
          LET r == list_tools(tools_cache, outcome)
          IN  /\ tools_cache' = r.cache
              /\ fetches' = IF r.asked THEN fetches + 1 ELSE fetches
              /\ returned' = Append(returned, [raised |-> r.raised, value |-> r.value,
                                               asked |-> r.asked])
              /\ IF r.raised
                 THEN UNCHANGED <<mcp_tools, openai_tools>>
                 ELSE /\ mcp_tools' = r.value
                      /\ openai_tools' = [set |-> TRUE,
                                          list |-> convert_to_openai_tools(r.value)]
    /\ UNCHANGED <<mode, trainVars, authVars, execVars, load_failed, costVars, serverVars, parseVars, loopVars, batchVars, chatVars>>

\* convert_to_openai_tools is called with a list of its own
Convert ==
    /\ mode = "client"
    /\ ~openai_tools.set
    /\ openai_tools' = [set |-> TRUE, list |-> convert_to_openai_tools(mcp_tools)]
    /\ UNCHANGED <<mode, trainVars, authVars, execVars, load_failed, costVars, serverVars, parseVars, loopVars, batchVars, chatVars, tools_cache,
                   fetches, returned, mcp_tools>>

----------------------------------------------------------------------------
(* mcp_server/server.py and adapters/finam_client_enhanced.py: the tools   *)
(* the server registers and the client of the trading API behind them      *)

MaxServerCalls == 2   \* most calls made in one run of the server
MaxRows        == 3   \* most rows of an order book at the exchange

\* server.py lines 18-301: the functions decorated with @mcp.tool()
ServerRegistry ==
    {"check_finam_api", "get_jwt_token_details", "refresh_jwt_token",
     "get_finam_accounts", "get_finam_portfolio", "get_finam_quotes",
     "search_finam_instruments", "get_finam_orderbook", "get_finam_candles",
     "get_finam_orders"}

\* generate_submission_adv.py lines 131-134: the tools the system prompt of
\* the batch names
AdvertisedTools ==
    {"search_finam_instruments", "get_finam_assets", "get_finam_quotes",
     "get_finam_orderbook"}

\* the attribute of the client each tool function calls
ClientAttribute(tool) ==
    CASE tool = "get_jwt_token_details"    -> "get_jwt_token_details_sync"
      [] tool = "refresh_jwt_token"        -> "refresh_jwt_token_sync"
      [] tool = "get_finam_accounts"       -> "get_accounts_sync"
      [] tool = "get_finam_portfolio"      -> "get_portfolio_sync"
      [] tool = "get_finam_quotes"         -> "get_quotes_sync"
      [] tool = "search_finam_instruments" -> "get_instruments_sync"
      [] tool = "get_finam_orderbook"      -> "get_orderbook_sync"
      [] tool = "get_finam_candles"        -> "get_candles_sync"
      [] tool = "get_finam_orders"         -> "get_orders_sync"
      [] OTHER                             -> ""

\* the attributes class FinamAPIClientEnhanced defines
ClientMethods ==
    {"_ensure_initialized", "get_jwt_token_details", "refresh_jwt_token",
     "get_accounts", "get_account_info", "get_portfolio", "get_trades",
     "get_orders", "get_instruments", "get_quotes", "get_orderbook",
     "get_candles", "get_assets"}

\* the methods of the client that are followed line by line
ModelledMethods == {"get_orders", "get_quotes", "get_orderbook"}

\* the depths tried: a negative one, zero, one inside the book and the
\* default of 10
Depths == {-1, 0, 2, 10}

\* the arguments given to a tool or to a method of the client
ArgumentsOf(name) ==
    CASE name \in {"get_finam_orderbook", "get_orderbook"} ->
            {[symbol |-> "SBER@MISX", depth |-> d] : d \in Depths}
      [] name \in {"get_finam_quotes", "get_quotes"} ->
            {[symbol |-> "SBER@MISX"]}
      [] name \in {"get_finam_orders", "get_orders", "get_finam_portfolio"} ->
            {[account_id |-> "ACC1"]}
      [] name = "search_finam_instruments" -> {[query |-> "SBER"]}
      [] name = "get_finam_candles" ->
            {[symbol |-> "SBER@MISX", timeframe |-> "D"]}
      [] OTHER -> {<<>>}

\* the order book the exchange holds: 0..MaxRows rows, best price first
Books == {[i \in 1..n |-> 100 + i] : n \in 0..MaxRows}

\* what the world outside does during one call: the answer to
\* requests.get, the JWT exchange, the request of the method and the book
StatusCodes == {"200", "204", "404", "500"}
RequestExceptions == {"Timeout", "ConnectionError", "RequestException"}
HttpAnswers == StatusCodes \cup RequestExceptions

Outcomes ==
    { [http |-> "200", jwt_ok |-> j, backend_ok |-> b, book |-> k]
      : j \in BOOLEAN, b \in BOOLEAN, k \in Books }

\* the fields a tool function repeats in its error record
EchoFields(tool) ==
    CASE tool \in {"get_finam_portfolio", "get_finam_orders"} -> {"account_id"}
      [] tool = "get_finam_quotes"         -> {"symbol"}
      [] tool = "search_finam_instruments" -> {"query"}
      [] tool = "get_finam_orderbook"      -> {"symbol", "depth"}
      [] tool = "get_finam_candles"        -> {"symbol", "timeframe"}
      [] OTHER                             -> {}

Returns(value, contacted) ==
    [raised |-> FALSE, exc |-> "", value |-> value, contacted |-> contacted]
Raises(exc, contacted) ==
    [raised |-> TRUE, exc |-> exc, value |-> <<>>, contacted |-> contacted]

\* the check that takes every 2xx answer for "available"
check_finam_api_AnySuccess(answer) ==
    CASE answer \in {"200", "204"} ->
            Returns([status |-> "available", code |-> answer, message |-> "ok"],
                    {"GET /v1"})
      [] answer \in StatusCodes ->
            Returns([status |-> "unavailable", code |-> answer,
                     message |-> "status code"], {"GET /v1"})
      [] OTHER -> Returns([status |-> "error", message |-> answer], {"GET /v1"})

\* server.py lines 29-61: one GET of the API root; 200 is "available", any
\* other status code "unavailable", a Timeout, a ConnectionError or another
\* RequestException "error"
check_finam_api(answer) ==
    CASE answer = "200" ->
            Returns([status |-> "available", code |-> answer, message |-> "ok"],
                    {"GET /v1"})
      [] answer \in StatusCodes ->
            Returns([status |-> "unavailable", code |-> answer,
                     message |-> "status code"], {"GET /v1"})
      [] answer = "Timeout" ->
            Returns([status |-> "error", message |-> "timeout"], {"GET /v1"})
      [] answer = "ConnectionError" ->
            Returns([status |-> "error", message |-> "no connection"], {"GET /v1"})
      [] OTHER ->
            Returns([status |-> "error", message |-> answer], {"GET /v1"})

\* Python's rows[:depth]
SliceTo(rows, depth) ==
    LET n == IF depth >= 0
             THEN (IF depth < Len(rows) THEN depth ELSE Len(rows))
             ELSE (IF Len(rows) + depth > 0 THEN Len(rows) + depth ELSE 0)
    IN  SubSeq(rows, 1, n)

\* finam_client_enhanced.py lines 28-46 and the called method: the
\* constructor raises without a token; _ensure_initialized, outside the
\* method's try, raises when the JWT exchange fails; a failing request is
\* turned into an error record by the method
ClientCall(method, args, token, outcome) ==
    IF token = ""
    THEN Raises("ValueError", {})
    ELSE IF ~outcome.jwt_ok
    THEN Raises("JWTError", {"POST /v1/sessions"})
    ELSE CASE method = "get_orders" ->
                 \* lines 220-227
                 Returns([status |-> "success", orders |-> <<>>,
                          account_id |-> args.account_id,
                          message |-> "not available for demo accounts"],
                         {"POST /v1/sessions"})
           [] method = "get_quotes" ->
                 \* lines 325-339
                 IF outcome.backend_ok
                 THEN Returns([status |-> "success", quotes |-> "last quote",
                               symbol |-> args.symbol, message |-> "ok"],
                              {"POST /v1/sessions", "GET quotes/latest"})
                 ELSE Returns([status |-> "error", symbol |-> args.symbol,
                               message |-> "backend"],
                              {"POST /v1/sessions", "GET quotes/latest"})
           [] method = "get_orderbook" ->
                 \* lines 352-372
                 IF outcome.backend_ok
                 THEN Returns([status |-> "success",
                               orderbook |-> [rows |-> SliceTo(outcome.book, args.depth)],
                               symbol |-> args.symbol, depth |-> args.depth,
                               message |-> "ok"],
                              {"POST /v1/sessions", "GET orderbook"})
                 ELSE Returns([status |-> "error", symbol |-> args.symbol,
                               message |-> "backend"],
                              {"POST /v1/sessions", "GET orderbook"})
           [] OTHER -> Raises("NotModelled", {})

\* the record of `except Exception as e` in a tool function
ErrorRecord(tool, args, exc) ==
    [k \in {"status", "message"} \cup EchoFields(tool) |->
        IF k = "status" THEN "error"
        ELSE IF k = "message" THEN exc
        ELSE args[k]]

\* a tool function without its handler
ServerTool_NoHandler(tool, args, token, outcome) ==
    IF tool = "check_finam_api"
    THEN check_finam_api(outcome.http)
    ELSE IF token = ""
    THEN Raises("ValueError", {})
    ELSE Raises("AttributeError", {})

\* server.py lines 64-301: a tool function constructs the client and calls
\* its attribute inside try, and returns an error record for any exception:
\* for the constructor's ValueError, for the AttributeError of an attribute
\* the class does not define, for an exception of the method
ServerTool(tool, args, token, outcome) ==
    IF tool = "check_finam_api"
    THEN check_finam_api(outcome.http)
    ELSE IF token = ""
    THEN Returns(ErrorRecord(tool, args, "ValueError"), {})
    ELSE IF ClientAttribute(tool) \notin ClientMethods
    THEN Returns(ErrorRecord(tool, args, "AttributeError"), {})
    ELSE LET r == ClientCall(ClientAttribute(tool), args, token, outcome)
         IN  IF r.raised
             THEN Returns(ErrorRecord(tool, args, r.exc), r.contacted)
             ELSE r

\* the tool names a caller asks the server for
CalledTools == ServerRegistry \cup AdvertisedTools

\* the server's answer to a call by name: the tool function when the name is
\* registered, the library's error otherwise
Dispatch(tool, args, token, outcome) ==
    IF tool \in ServerRegistry
    THEN ServerTool(tool, args, token, outcome)
    ELSE Raises("Unknown tool", {})

\* what the requests made during a call do to the orders at the brokerage
Brokerage(contacted, held) ==
    IF \E e \in contacted : e \in {"POST orders", "DELETE orders"}
    THEN <<>>
    ELSE held

NoCall == [layer |-> "", name |-> "", args |-> <<>>, outcome |-> <<>>]
NoAnswer == Raises("", {})

ServerIdle ==
    /\ environ = ""
    /\ orders = <<>>
    /\ endpoints = {}
    /\ s_call = NoCall
    /\ s_result = NoAnswer
    /\ s_calls = 0

\* the server process starts with or without FINAM_ACCESS_TOKEN; the account
\* holds one order
InitServer ==
    /\ mode = "server"
    /\ environ \in {"", "token"}
    /\ orders = <<"ORD123">>
    /\ endpoints = {}
    /\ s_call = NoCall
    /\ s_result = NoAnswer
    /\ s_calls = 0

\* one call of a tool by name through the server
CallServerTool ==
    /\ mode = "server"
    /\ s_calls < MaxServerCalls
    /\ \E tool \in CalledTools, http \in HttpAnswers, o \in Outcomes :
          \E args \in ArgumentsOf(tool) :
             LET outcome == [o EXCEPT !.http = http]
                 r == Dispatch(tool, args, environ, outcome)
             IN  /\ tool # "check_finam_api" => http = "200"
                 /\ tool = "check_finam_api" => o = CHOOSE x \in Outcomes : TRUE
                 /\ tool \notin {"get_finam_orderbook"} => o.book = <<>>
                 /\ s_call' = [layer |-> "tool", name |-> tool, args |-> args,
                               outcome |-> outcome]
                 /\ s_result' = r
                 /\ endpoints' = endpoints \cup r.contacted
                 /\ orders' = Brokerage(r.contacted, orders)
    /\ s_calls' = s_calls + 1
    /\ UNCHANGED <<mode, trainVars, authVars, execVars, load_failed, costVars, parseVars, loopVars, batchVars, chatVars, clientVars,
                   environ>>

\* one call of a method of FinamAPIClientEnhanced on a new instance
CallClientMethod ==
    /\ mode = "server"
    /\ s_calls < MaxServerCalls
    /\ \E method \in ModelledMethods, o \in Outcomes :
          \E args \in ArgumentsOf(method) :
             LET r == ClientCall(method, args, environ, o)
             IN  /\ method # "get_orderbook" => o.book = <<>>
                 /\ s_call' = [layer |-> "client", name |-> method, args |-> args,
                               outcome |-> o]
                 /\ s_result' = r
                 /\ endpoints' = endpoints \cup r.contacted
                 /\ orders' = Brokerage(r.contacted, orders)
    /\ s_calls' = s_calls + 1
    /\ UNCHANGED <<mode, trainVars, authVars, execVars, load_failed, costVars, parseVars, loopVars, batchVars, chatVars, clientVars,
                   environ>>

----------------------------------------------------------------------------
(* FinamAPIClientEnhanced.get_instruments                                   *)

\* finam_client_enhanced.py lines 254-258
popular_tickers ==
    <<"SBER@MISX", "GAZP@MISX", "LKOH@MISX", "YNDX@MISX", "GMKN@MISX", "NVTK@MISX",
      "ROSN@MISX", "MGNT@MISX", "TATN@MISX", "SNGS@MISX", "MTSS@MISX", "ALRS@MISX">>

EmptyQueryLimit == 10   \* line 294: popular_tickers[:10]

\* the queries tried: none, a ticker in lower case, a full ticker, a part of
\* every popular ticker, and a name no ticker contains
Queries == {"", "sber", "SBER@MISX", "@MISX", "yandex"}

\* the ticker of the first lookup of a query, lines 263-279: query.upper(),
\* with "@MISX" added when it holds no "@"
FullTicker(query) ==
    CASE query = "sber"      -> "SBER@MISX"
      [] query = "SBER@MISX" -> "SBER@MISX"
      [] query = "@MISX"     -> "@MISX"
      [] OTHER               -> "YANDEX@MISX"

\* line 283: query_upper in ticker, for the queries tried
QueryInTicker(query, ticker) ==
    CASE query \in {"sber", "SBER@MISX"} -> ticker = "SBER@MISX"
      [] query = "@MISX"                 -> TRUE
      [] OTHER                           -> FALSE

\* the tickers get_asset is called with, in order
LookupsOf(query) ==
    IF query = ""
    THEN SubSeq(popular_tickers, 1, EmptyQueryLimit)
    ELSE <<FullTicker(query)>>
            \o SelectSeq(popular_tickers, LAMBDA t : QueryInTicker(query, t))

\* asset.model_dump() of the asset the exchange holds for a ticker
AssetOf(ticker) == [ticker |-> ticker, board |-> "TQBR"]

\* the exchange knows the popular tickers; a lookup of another one fails, and
\* so does a lookup whose position is in `fails`
LookupSucceeds(lookups, i, fails) ==
    /\ i \notin fails
    /\ \E k \in 1..Len(popular_tickers) : popular_tickers[k] = lookups[i]

\* the positions of lookups that may fail although the ticker exists
FailChoices == SUBSET (1..2) \cup {1..Len(popular_tickers) + 1}

InSeq(x, s) == \E k \in 1..Len(s) : s[k] = x

\* the search that appends every asset it finds
RECURSIVE InstrumentsFrom_NoDuplicateCheck(_, _, _, _, _)
InstrumentsFrom_NoDuplicateCheck(query, lookups, fails, i, found) ==
    IF i > Len(lookups) THEN found
    ELSE InstrumentsFrom_NoDuplicateCheck(query, lookups, fails, i + 1,
            IF LookupSucceeds(lookups, i, fails)
            THEN Append(found, AssetOf(lookups[i]))
            ELSE found)

\* lines 262-298: a failed lookup is skipped; the assets of the filtered
\* popular tickers are added only when they are not in the list yet
RECURSIVE InstrumentsFrom(_, _, _, _, _)
InstrumentsFrom(query, lookups, fails, i, found) ==
    IF i > Len(lookups) THEN found
    ELSE InstrumentsFrom(query, lookups, fails, i + 1,
            IF ~LookupSucceeds(lookups, i, fails)
            THEN found
            ELSE IF query # "" /\ i > 1 /\ InSeq(AssetOf(lookups[i]), found)
            THEN found
            ELSE Append(found, AssetOf(lookups[i])))

\* lines 229-313: the constructor and _ensure_initialized as for the other
\* methods; without FINAM_DEMO_ACCOUNT_ID an error record and no lookup
get_instruments(query, token, jwt_ok, demo_account_id, fails) ==
    IF token = ""
    THEN Raises("ValueError", {}) @@ [lookups |-> <<>>]
    ELSE IF ~jwt_ok
    THEN Raises("JWTError", {"POST /v1/sessions"}) @@ [lookups |-> <<>>]
    ELSE IF demo_account_id = ""
    THEN Returns([status |-> "error", query |-> query,
                  message |-> "FINAM_DEMO_ACCOUNT_ID is not set"],
                 {"POST /v1/sessions"}) @@ [lookups |-> <<>>]
    ELSE Returns([status |-> "success",
                  instruments |-> InstrumentsFrom(query, LookupsOf(query), fails, 1, <<>>),
                  query |-> query, message |-> "found"],
                 {"POST /v1/sessions", "GET assets"})
            @@ [lookups |-> LookupsOf(query)]

\* one search on a new instance of the client
SearchInstruments ==
    /\ mode = "server"
    /\ s_calls < MaxServerCalls
    /\ \E query \in Queries, jwt_ok \in BOOLEAN, demo \in {"", "DEMO1"},
          fails \in FailChoices :
          LET r == get_instruments(query, environ, jwt_ok, demo, fails)
          IN  /\ s_call' = [layer |-> "client", name |-> "get_instruments",
                            args |-> [query |-> query],
                            outcome |-> [http |-> "200", jwt_ok |-> jwt_ok,
                                         backend_ok |-> TRUE, book |-> <<>>,
                                         demo_account_id |-> demo, fails |-> fails]]
              /\ s_result' = r
              /\ endpoints' = endpoints \cup r.contacted
              /\ orders' = Brokerage(r.contacted, orders)
    /\ s_calls' = s_calls + 1
    /\ UNCHANGED <<mode, trainVars, authVars, execVars, load_failed, costVars, parseVars, loopVars,
                   batchVars, chatVars, clientVars, environ>>

----------------------------------------------------------------------------
(* execute_tool_calls over what MCPClient.call_tool makes of the server's   *)
(* answer                                                                   *)

\* what the server's CallToolResult holds, or the failure of the call
RawResults ==
    { [kind |-> "json_text",  text |-> "status"],    \* a text item holding JSON
      [kind |-> "plain_text", text |-> "plain"],     \* a text item that is not JSON
      [kind |-> "non_text",   text |-> ""],          \* a first item without text
      [kind |-> "no_content", text |-> ""],          \* an empty content list
      [kind |-> "raises",     text |-> "timed out"] }

\* mcp_client.py lines 77-94: the decoded JSON of a text item, the text itself
\* when it does not decode, the item when it has no text, the result object
\* when there is no content; an exception of the underlying client passes
call_tool(raw) ==
    CASE raw.kind = "raises"     -> [raises |-> TRUE,  type |-> "",       val |-> raw.text]
      [] raw.kind = "json_text"  -> [raises |-> FALSE, type |-> "dict",   val |-> raw.text]
      [] raw.kind = "plain_text" -> [raises |-> FALSE, type |-> "str",    val |-> raw.text]
      [] raw.kind = "non_text"   -> [raises |-> FALSE, type |-> "object", val |-> "ImageContent"]
      [] OTHER                   -> [raises |-> FALSE, type |-> "object", val |-> "CallToolResult"]

\* json.dumps accepts dicts and strings and raises TypeError for other objects
Serialisable(value) == value.type \in {"dict", "str"}

\* the try block that takes json.dumps to succeed on every returned value
TryCall_DumpsAnything(tc, raw) ==
    LET r == call_tool(raw)
    IN  IF r.raises
        THEN ToolResultMessage(tc, [raises |-> TRUE, key |-> "error", val |-> r.val])
        ELSE ToolResultMessage(tc, [raises |-> FALSE, key |-> r.type, val |-> r.val])

\* generate_submission_adv.py lines 216-230: the call and json.dumps of its
\* value are inside one try, so an exception of either gives the error message
TryCall(tc, raw) ==
    LET r == call_tool(raw)
    IN  IF r.raises
        THEN ToolResultMessage(tc, [raises |-> TRUE, key |-> "error", val |-> r.val])
        ELSE IF ~Serialisable(r)
        THEN ToolResultMessage(tc, [raises |-> TRUE, key |-> "error",
                                    val |-> "not JSON serializable"])
        ELSE IF r.type = "str"
        THEN ToolResultMessage(tc, [raises |-> FALSE, key |-> "", val |-> r.val])
        ELSE ToolResultMessage(tc, [raises |-> FALSE, key |-> r.val, val |-> "success"])

ExecIdle ==
    /\ e_pc = "none"
    /\ e_tool_calls = <<>>
    /\ e_results = <<>>
    /\ e_raw = <<>>

\* lines 197-204: the list of tool calls of a reply, with the connection open
InitExec ==
    /\ mode = "exec"
    /\ e_pc = "for"
    /\ e_tool_calls \in ToolCallLists
    /\ e_results = <<>>
    /\ e_raw = <<>>

\* lines 205-230: one pass of the loop over the tool calls
ExecCallTool ==
    /\ mode = "exec"
    /\ e_pc = "for"
    /\ Len(e_results) < Len(e_tool_calls)
    /\ \E raw \in RawResults :
          /\ e_results' = Append(e_results,
                                 TryCall(e_tool_calls[Len(e_results) + 1], raw))
          /\ e_raw' = Append(e_raw, raw)
    /\ UNCHANGED <<mode, trainVars, authVars, load_failed, costVars, clientVars, serverVars, parseVars,
                   loopVars, batchVars, chatVars, e_pc, e_tool_calls>>

\* line 232: return results
ExecReturn ==
    /\ mode = "exec"
    /\ e_pc = "for"
    /\ Len(e_results) = Len(e_tool_calls)
    /\ e_pc' = "returned"
    /\ UNCHANGED <<mode, trainVars, authVars, load_failed, costVars, clientVars, serverVars, parseVars,
                   loopVars, batchVars, chatVars, e_tool_calls, e_results, e_raw>>

----------------------------------------------------------------------------
(* load_train_examples                                                      *)

MaxTrain == 4        \* rows of the training file
MaxExamples == 5     \* largest num_examples tried

RowTypes == {"GET", "POST", "DELETE"}

\* lines 63-67: the rows of train.csv; the question stands for the row's text
TrainingSets ==
    UNION {{[i \in 1..n |-> [question |-> i, type |-> ty[i]]] :
               ty \in [1..n -> RowTypes]} : n \in 0..MaxTrain}

\* lines 70-72: [e for e in examples if e["type"] == ...]
OfType(rows, ty) == SelectSeq(rows, LAMBDA e : e.type = ty)

Min(a, b) == IF a < b THEN a ELSE b

\* random.sample(population, k) raises ValueError unless 0 <= k <= len
SampleRaises(population, k) == k < 0 \/ k > Len(population)

\* random.sample(population, k): k elements at distinct positions, any order
Samples(population, k) ==
    {[i \in 1..k |-> population[f[i]]] :
        f \in {g \in [1..k -> 1..Len(population)] :
                 \A a, b \in 1..k : a # b => g[a] # g[b]}}

TrainIdle ==
    /\ t_pc = "none"
    /\ examples = <<>>
    /\ num_examples = 0
    /\ selected = <<>>
    /\ t_raised = ""

\* line 61: the arguments; the file has been read into `examples`
InitTrain ==
    /\ mode = "train"
    /\ t_pc = "call"
    /\ examples \in TrainingSets
    /\ num_examples \in 0..MaxExamples
    /\ selected = <<>>
    /\ t_raised = ""

\* lines 69-80: three samples, the first of min(num_examples - 3, len) GET
\* rows, then the slice to num_examples
LoadTrainExamples ==
    /\ mode = "train"
    /\ t_pc = "call"
    /\ LET get_examples    == OfType(examples, "GET")
           post_examples   == OfType(examples, "POST")
           delete_examples == OfType(examples, "DELETE")
           k == Min(num_examples - 3, Len(get_examples))
       IN  IF SampleRaises(get_examples, k)
           THEN /\ t_pc' = "raised"
                /\ t_raised' = "ValueError"
                /\ selected' = <<>>
           ELSE /\ \E g \in Samples(get_examples, k),
                      p \in Samples(post_examples, Min(2, Len(post_examples))),
                      d \in Samples(delete_examples, Min(1, Len(delete_examples))) :
                      selected' = SliceTo(g \o p \o d, num_examples)
                /\ t_pc' = "returned"
                /\ t_raised' = ""
    /\ UNCHANGED <<mode, authVars, execVars, load_failed, costVars, clientVars,
                   serverVars, parseVars, loopVars, batchVars, chatVars,
                   examples, num_examples>>

----------------------------------------------------------------------------
(* One FinamAPIClientEnhanced instance used by two coroutines               *)

MaxOps == 4          \* operations started on the instance

Tasks == {"t1", "t2"}

NoOp == [op |-> "", at |-> "idle", out |-> ""]

\* the flag once set_jwt_token has raised or returned
FlagAfterSet_BeforeAwait(flag, ok) == TRUE

\* lines 53-54 and 85-86: the assignment follows the awaited call, so an
\* exception leaves the flag as it was
FlagAfterSet(flag, ok) == flag \/ ok

AuthIdle ==
    /\ a_initialized = FALSE
    /\ a_task = [t \in Tasks |-> NoOp]
    /\ a_ops = 0
    /\ a_started = 0
    /\ a_succeeded = 0

\* lines 28-46: a constructed instance, self._initialized = False
InitAuth ==
    /\ mode = "instance"
    /\ a_initialized = FALSE
    /\ a_task = [t \in Tasks |-> NoOp]
    /\ a_ops = 0
    /\ a_started = 0
    /\ a_succeeded = 0

\* a method that begins with `await self._ensure_initialized()` is called:
\* lines 52-53, the token is set only when the flag is false
StartRead(t) ==
    /\ mode = "instance"
    /\ a_task[t].at = "idle"
    /\ a_ops < MaxOps
    /\ a_ops' = a_ops + 1
    /\ IF a_initialized
       THEN /\ a_task' = [a_task EXCEPT ![t] = [op |-> "read", at |-> "body", out |-> ""]]
            /\ a_started' = a_started
       ELSE /\ a_task' = [a_task EXCEPT ![t] = [op |-> "read", at |-> "set_jwt", out |-> ""]]
            /\ a_started' = a_started + 1
    /\ UNCHANGED <<mode, trainVars, execVars, load_failed, costVars, clientVars,
                   serverVars, parseVars, loopVars, batchVars, chatVars,
                   a_initialized, a_succeeded>>

\* lines 84-85: refresh_jwt_token sets the token whatever the flag
StartRefresh(t) ==
    /\ mode = "instance"
    /\ a_task[t].at = "idle"
    /\ a_ops < MaxOps
    /\ a_ops' = a_ops + 1
    /\ a_task' = [a_task EXCEPT ![t] = [op |-> "refresh", at |-> "set_jwt", out |-> ""]]
    /\ a_started' = a_started + 1
    /\ UNCHANGED <<mode, trainVars, execVars, load_failed, costVars, clientVars,
                   serverVars, parseVars, loopVars, batchVars, chatVars,
                   a_initialized, a_succeeded>>

\* the awaited set_jwt_token returns or raises: lines 53-54 let the
\* exception leave the method, lines 84-95 turn it into an error record
SetJwtToken(t) ==
    /\ mode = "instance"
    /\ a_task[t].at = "set_jwt"
    /\ \E ok \in BOOLEAN :
          /\ a_initialized' = FlagAfterSet(a_initialized, ok)
          /\ a_succeeded' = IF ok THEN a_succeeded + 1 ELSE a_succeeded
          /\ a_task' = [a_task EXCEPT ![t] =
                CASE a_task[t].op = "read" /\ ok  -> [@ EXCEPT !.at = "body"]
                  [] a_task[t].op = "read" /\ ~ok -> [@ EXCEPT !.at = "idle", !.out = "raised"]
                  [] ok                            -> [@ EXCEPT !.at = "idle", !.out = "success"]
                  [] OTHER                         -> [@ EXCEPT !.at = "idle", !.out = "error"]]
    /\ UNCHANGED <<mode, trainVars, execVars, load_failed, costVars, clientVars,
                   serverVars, parseVars, loopVars, batchVars, chatVars,
                   a_ops, a_started>>

\* the try block of a read method: a record with status success or error
FinishRead(t) ==
    /\ mode = "instance"
    /\ a_task[t].at = "body"
    /\ \E status \in {"success", "error"} :
          a_task' = [a_task EXCEPT ![t] = [@ EXCEPT !.at = "idle", !.out = status]]
    /\ UNCHANGED <<mode, trainVars, execVars, load_failed, costVars, clientVars,
                   serverVars, parseVars, loopVars, batchVars, chatVars,
                   a_initialized, a_ops, a_started, a_succeeded>>

----------------------------------------------------------------------------

Init ==
    \/ InitParse /\ CostIdle /\ TrainIdle /\ AuthIdle /\ ExecIdle /\ LoopIdle /\ BatchIdle /\ ChatIdle /\ ClientIdle /\ ServerIdle
    \/ InitCall /\ CostIdle /\ TrainIdle /\ AuthIdle /\ ExecIdle /\ ParseIdle /\ BatchIdle /\ ChatIdle /\ ClientIdle /\ ServerIdle
    \/ InitBatch /\ CostIdle /\ TrainIdle /\ AuthIdle /\ ExecIdle /\ ParseIdle /\ ChatIdle /\ ClientIdle /\ ServerIdle
    \/ InitChat /\ CostIdle /\ TrainIdle /\ AuthIdle /\ ExecIdle /\ ParseIdle /\ BatchIdle /\ ClientIdle /\ ServerIdle
    \/ InitClient /\ CostIdle /\ TrainIdle /\ AuthIdle /\ ExecIdle /\ ParseIdle /\ LoopIdle /\ BatchIdle /\ ChatIdle /\ ServerIdle
    \/ InitServer /\ CostIdle /\ TrainIdle /\ AuthIdle /\ ExecIdle /\ ParseIdle /\ LoopIdle /\ BatchIdle /\ ChatIdle /\ ClientIdle
    \/ InitExec /\ CostIdle /\ TrainIdle /\ AuthIdle /\ ParseIdle /\ LoopIdle /\ BatchIdle /\ ChatIdle /\ ClientIdle /\ ServerIdle
    \/ InitTrain /\ CostIdle /\ AuthIdle /\ ExecIdle /\ ParseIdle /\ LoopIdle /\ BatchIdle /\ ChatIdle /\ ClientIdle /\ ServerIdle
    \/ InitAuth /\ CostIdle /\ TrainIdle /\ ExecIdle /\ ParseIdle /\ LoopIdle /\ BatchIdle /\ ChatIdle /\ ClientIdle /\ ServerIdle

Next ==
    \/ Render
    \/ Parse
    \/ Enter
    \/ CallLLM
    \/ LLMFails
    \/ LLMRequestsTools
    \/ LLMAnswers
    \/ Exhausted
    \/ ClientEnter
    \/ StartTool
    \/ CallTool
    \/ ClientExit
    \/ BaseCall
    \/ LoadTools
    \/ StartQuestion
    \/ Collect
    \/ WriteOutput
    \/ ChatPrompt
    \/ ChatLLMFails
    \/ ChatLLMRequestsTools
    \/ ChatLLMAnswers
    \/ ChatClientEnter
    \/ ChatCallTool
    \/ ChatClientExit
    \/ ListTools
    \/ GetOpenAITools
    \/ Convert
    \/ CallServerTool
    \/ CallClientMethod
    \/ SearchInstruments
    \/ ExecCallTool
    \/ ExecReturn
    \/ LoadTrainExamples
    \/ \E t \in Tasks : StartRead(t)
    \/ \E t \in Tasks : StartRefresh(t)
    \/ \E t \in Tasks : SetJwtToken(t)
    \/ \E t \in Tasks : FinishRead(t)

Spec == Init /\ [][Next]_vars

----------------------------------------------------------------------------
(* Properties                                                              *)

WellFormed(m, p) ==
    /\ m \in {"GET", "POST", "DELETE", "PUT", "PATCH"}
    /\ Len(p) > 0
    /\ p[1] = "/"

V1Assets == <<"/", "v", "1", "/", "a", "s", "s", "e", "t", "s">>

\* position in the run, ordered so that every step moves down: rounds left,
\* then the phase within the round, then tool calls left in the round
Rank == <<max_iterations - iteration,
          CASE pc = "entry" -> 5
            [] pc = "for" -> 4
            [] pc = "llm" -> 3
            [] pc = "aenter" -> 2
            [] pc = "call_tool" -> 1
            [] OTHER -> 0,
          2 * (Len(tool_calls) - Len(results))
              - Cardinality({f \in in_flight : f.kind = "tool"})>>

LexLess(a, b) ==
    \/ a[1] < b[1]
    \/ a[1] = b[1] /\ a[2] < b[2]
    \/ a[1] = b[1] /\ a[2] = b[2] /\ a[3] < b[3]

\* C1: whatever the model and the tools do, a run of
\* generate_api_call_with_mcp makes at most max_iterations model calls, lets
\* no exception out, and terminates by returning a {type, request} record:
\* before the return a step is always possible, and every step either returns
\* or moves strictly down a well-founded order.
C1_TerminatesWithResult ==
    /\ [](mode = "mcp" =>
            /\ llm_calls <= max_iterations
            /\ ~escaped
            /\ (pc = "done" => result.type # "" /\ result.request # <<>>)
            /\ (pc # "done" => ENABLED Next)
            /\ Rank[1] >= 0 /\ Rank[3] >= 0)
    /\ [][mode = "mcp" => (pc' = "done" \/ LexLess(Rank', Rank))]_vars

C1_Witness ==
    /\ mode = "mcp"
    /\ pc = "done"
    /\ max_iterations >= 2
    /\ llm_calls = max_iterations
    /\ llm_failures = 1
    /\ result = FallbackResult

\* C2: a run in which every model reply asked for tool calls (no reply
\* without tool calls, no failed model call) ends after exactly
\* max_iterations model calls with {GET, /v1/assets}.
C2_ExactlyMaxIterations ==
    (mode = "mcp" /\ pc = "done" /\ ~final_text.received /\ llm_failures = 0)
        => (llm_calls = max_iterations /\ result = [type |-> "GET", request |-> V1Assets])

\* C3: every result produced, by the parser on any text and by either
\* generator, and so every row collected and written by the batch, has a
\* method among the five and a path that starts with "/".
C3_ResultsWellFormed ==
    /\ p_pc = "parsed" => WellFormed(parsed[1], parsed[2])
    /\ pc = "done" => WellFormed(result.type, result.request)
    /\ \A i \in 1..Len(main_results) :
          WellFormed(main_results[i].type, main_results[i].request)
    /\ \A i \in 1..Len(output_file.rows) :
          WellFormed(output_file.rows[i].type, output_file.rows[i].request)

C3_Witness ==
    /\ p_pc = "parsed"
    /\ response = <<"p", "o", "s", "t", " ", "a">>
    /\ parsed = <<"POST", V1Assets>>

\* C4: in the conversation every assistant message with N tool calls is
\* followed by exactly N tool messages, the i-th carrying the id and the tool
\* name of the i-th call.
C4_ToolMessagesMatchCalls ==
    \A j \in 1..Len(conversation_history) :
        LET h == conversation_history
            n == Len(h[j].tool_calls)
        IN  (h[j].role = "assistant" /\ n > 0) =>
                /\ j + n <= Len(h)
                /\ \A i \in 1..n :
                      /\ h[j + i].role = "tool"
                      /\ h[j + i].tool_call_id = h[j].tool_calls[i].id
                      /\ h[j + i].name = h[j].tool_calls[i].function.name
                /\ (j + n + 1 <= Len(h) => h[j + n + 1].role # "tool")

C4_Witness ==
    /\ Len(conversation_history) >= 5
    /\ Len(conversation_history[3].tool_calls) = 2
    /\ conversation_history[4].content.key = "error"
    /\ conversation_history[5].content.key = "status"

\* C5: once a model call has failed the run is over: it has returned
\* {GET, /v1/assets} without raising, and no model call or tool call follows.
C5_ModelFailureFallsBack ==
    /\ [](mode = "mcp" /\ llm_failures > 0 =>
            /\ pc = "done"
            /\ result = [type |-> "GET", request |-> V1Assets]
            /\ ~escaped
            /\ llm_failures = 1)
    /\ [][mode = "mcp" /\ llm_failures > 0 =>
            /\ llm_calls' = llm_calls
            /\ tool_log' = tool_log]_vars

C5_Witness ==
    /\ mode = "mcp"
    /\ pc = "done"
    /\ llm_failures = 1
    /\ llm_calls = 2
    /\ iteration = 1

\* C6: a tool call that raised has an {"error": ...} tool message, the round
\* runs all its calls, and with budget left the round is followed by the next
\* model call, whose conversation holds that message.
C6_LoopContinuesAfterToolError ==
    /\ [](pc = "call_tool" =>
            \A i \in 1..Len(results) :
                tool_log[i].raised => results[i].content.key = "error")
    /\ [][(/\ pc = "call_tool"
           /\ Len(results) = Len(tool_calls)
           /\ \E i \in 1..Len(tool_log) : tool_log[i].raised
           /\ iteration + 1 < max_iterations)
          => (/\ pc' = "for"
              /\ \E j \in 1..Len(conversation_history') :
                    /\ conversation_history'[j].role = "tool"
                    /\ conversation_history'[j].content.key = "error")]_vars

\* C7: no failure of the tool side (a tool call, opening or closing the
\* connection) makes a run end in the handler of the loop.
C7_NoToolFailureReachesLoop ==
    (mode = "mcp" /\ pc = "done") => caught \notin {"ConnectError", "CloseError"}

\* C8: when the reply without tool calls arrives with text t after k-1 tool
\* rounds, the run returns parse_llm_response(t) after exactly k model calls,
\* and nothing is called after the return (the batch then drops the frame).
C8_FinalAnswerIsParsed ==
    /\ [](mode = "mcp" /\ pc = "done" /\ final_text.received /\ ~final_text.isnull =>
            /\ result = [type    |-> parse_llm_response(final_text.text)[1],
                         request |-> parse_llm_response(final_text.text)[2]]
            /\ llm_calls = iteration + 1
            /\ caught = ""
            /\ (final_text.text = ScenarioA =>
                   result = [type |-> "GET", request |-> SliceFrom(ScenarioA, 4)]))
    /\ [][pc = "done" =>
            \/ llm_calls' = llm_calls /\ tool_log' = tool_log
            \/ mode = "batch" /\ pc' = "idle"]_vars

C8_Witness ==
    /\ mode = "mcp"
    /\ pc = "done"
    /\ final_text.received
    /\ final_text.text = ScenarioA
    /\ llm_calls = 2
    /\ iteration = 1
    /\ result.request = SliceFrom(ScenarioA, 4)

\* the text, and the text after a leading method name, have no
\* whitespace-separated part that starts with "/"
NoRecognizablePath(t) ==
    LET whole == strip(t)
        rests == {strip(SliceFrom(whole, Len(MethodChars(m)))) :
                    m \in {x \in MethodSet : startswith(upper(whole), MethodChars(x))}}
    IN  \A c \in {whole} \cup rests :
            \A i \in 1..Len(split(c)) : split(c)[i][1] # "/"

ImmediateFreeform ==
    /\ mode \in {"mcp", "base"}
    /\ pc = "done"
    /\ llm_calls = 1
    /\ final_text.received
    /\ ~final_text.isnull
    /\ NoRecognizablePath(final_text.text)

\* C9 as stated: an immediate reply with no recognizable path gives
\* {GET, /v1/assets}.
C9_FreeformGivesGetAssets ==
    ImmediateFreeform => result = [type |-> "GET", request |-> V1Assets]

\* C9 as amended: the path is /v1/assets; the method is the one the trimmed
\* text starts with (ignoring case), GET when it starts with none.
C9_FreeformGivesAssetsPath ==
    ImmediateFreeform =>
        /\ result.request = V1Assets
        /\ \A m \in MethodSet :
              startswith(upper(strip(final_text.text)), MethodChars(m))
                  => result.type = m
        /\ (\A m \in MethodSet :
               ~startswith(upper(strip(final_text.text)), MethodChars(m)))
                  => result.type = "GET"

C9_Witness ==
    /\ ImmediateFreeform
    /\ mode = "mcp"
    /\ final_text.text = Freeform
    /\ result = [type |-> "PUT", request |-> V1Assets]

\* C10 as stated: parsing the rendering of (m, p) gives back (m, p).
C10_RoundTrip ==
    (p_pc = "parsed" /\ in_method # "") => parsed = <<in_method, in_path>>

\* C10 as amended: it gives back m and p without its trailing whitespace, so
\* (m, p) itself exactly when p does not end in whitespace.
C10_RoundTripUpToTrailingSpace ==
    (p_pc = "parsed" /\ in_method # "") =>
        /\ parsed[1] = in_method
        /\ IF in_path[Len(in_path)] \in {" ", "\n"}
           THEN /\ parsed[2] # in_path
                /\ \E n \in 1..Len(in_path) :
                      /\ parsed[2] = SubSeq(in_path, 1, n)
                      /\ parsed[2][n] \notin {" ", "\n"}
                      /\ \A i \in (n + 1)..Len(in_path) : in_path[i] \in {" ", "\n"}
           ELSE parsed[2] = in_path

C10_Witness ==
    /\ p_pc = "parsed"
    /\ in_method = "DELETE"
    /\ in_path = <<"/", "a", " ">>
    /\ parsed = <<"DELETE", <<"/", "a">>>>

\* the trimmed text starts with method m when compared ignoring case
StartsWithMethod(t, m) == startswith(upper(strip(t)), MethodChars(m))

\* the text after the method m it starts with: what follows the shortest
\* prefix that reads m when case is ignored
AfterMethod(t, m) ==
    LET whole == strip(t)
        n == CHOOSE k \in 0..Len(whole) :
                /\ upper(SubSeq(whole, 1, k)) = MethodChars(m)
                /\ \A j \in 0..(k - 1) : upper(SubSeq(whole, 1, j)) # MethodChars(m)
    IN  SliceFrom(whole, n)

\* C11 as stated: the method is the first of GET, POST, DELETE, PUT, PATCH
\* that the trimmed text starts with ignoring case, and the path candidate is
\* the trimmed remainder of the text; with no such method the method is GET
\* and the candidate is the whole trimmed text.
C11_MethodAndCandidate ==
    (p_pc = "parsed" /\ in_method = "") =>
        LET hits == {i \in 1..Len(methods) : StartsWithMethod(response, methods[i])}
            first == CHOOSE i \in hits : \A j \in hits : i <= j
        IN  IF hits = {}
            THEN parsed[1] = "GET" /\ request = strip(response)
            ELSE /\ parsed[1] = methods[first]
                 /\ request = strip(AfterMethod(response, methods[first]))

\* a whitespace-separated token of s that starts with "/", from position i to j
SlashTokenAt(s, i, j) ==
    /\ 1 <= i /\ i <= j /\ j <= Len(s)
    /\ s[i] = "/"
    /\ \A k \in i..j : s[k] \notin Whitespace
    /\ (i = 1 \/ s[i - 1] \in Whitespace)
    /\ (j = Len(s) \/ s[j + 1] \in Whitespace)

\* C12: the path is the whole candidate when the candidate starts with "/",
\* else the first whitespace-separated token of the candidate that starts
\* with "/", else /v1/assets.
C12_PathFromCandidate ==
    (p_pc = "parsed" /\ in_method = "") =>
        LET c == request
            tokens == {ij \in (1..Len(c)) \X (1..Len(c)) : SlashTokenAt(c, ij[1], ij[2])}
        IN  IF c # <<>> /\ c[1] = "/" THEN parsed[2] = c
            ELSE IF tokens = {} THEN parsed[2] = V1Assets
            ELSE \E ij \in tokens :
                    /\ \A o \in tokens : ij[1] <= o[1]
                    /\ parsed[2] = SubSeq(c, ij[1], ij[2])

C12_Witness ==
    /\ p_pc = "parsed"
    /\ response = <<"a", " ", "/", "v", "1">>
    /\ request = response
    /\ parsed = <<"GET", <<"/", "v", "1">>>>

\* C13: every tool call the round reaches is made with the decoded value of
\* a well-formed JSON string, with the object itself when the arguments are
\* not a string, and with {} when the string does not decode; each of them
\* is called, gets one tool message, and the round goes on to the next call.
C13_ArgumentsDecoded ==
    /\ [](pc = "call_tool" =>
            /\ Len(tool_log) = Len(results)
            /\ \A i \in 1..Len(results) :
                  LET a == tool_calls[i].function.arguments
                  IN  /\ tool_log[i].name = tool_calls[i].function.name
                      /\ tool_log[i].arguments =
                            (IF ~a.isstr THEN a.value
                             ELSE IF a.wellformed THEN a.value ELSE {})
                      /\ results[i].role = "tool"
                      /\ results[i].tool_call_id = tool_calls[i].id)
    /\ [][(pc = "call_tool" /\ in_flight # {}) =>
            /\ pc' = "call_tool"
            /\ Len(results') = Len(results) + 1
            /\ Len(tool_log') = Len(tool_log) + 1
            /\ caught' = caught
            /\ tool_calls' = tool_calls]_vars

C13_Witness ==
    /\ pc = "call_tool"
    /\ Len(tool_calls) = 2
    /\ Len(results) = 2
    /\ tool_calls[1].function.arguments = BrokenArguments
    /\ tool_log[1].arguments = {}
    /\ ~tool_log[1].raised
    /\ tool_calls[2].function.arguments = StringArguments
    /\ tool_log[2].arguments = StringArguments.value

NearestAssistant(h, j) ==
    LET before == {a \in 1..(j - 1) : h[a].role = "assistant"}
    IN  IF before = {} THEN 0
        ELSE CHOOSE a \in before : \A b \in before : b <= a

\* C15: in the interactive session, whenever the model is about to be
\* called, every tool message of the history carries the id of a tool call
\* of the nearest assistant message before it, and every tool call of an
\* assistant message has exactly one tool message answering it.
C15_ChatHistoryPairsToolMessages ==
    (mode = "chat" /\ c_pc = "while") =>
        LET h == conversation_history
        IN  /\ \A j \in 1..Len(h) :
                  h[j].role = "tool" =>
                      LET a == NearestAssistant(h, j)
                      IN  /\ a > 0
                          /\ \E i \in 1..Len(h[a].tool_calls) :
                                h[a].tool_calls[i].id = h[j].tool_call_id
            /\ \A a \in 1..Len(h) :
                  h[a].role = "assistant" =>
                      \A i \in 1..Len(h[a].tool_calls) :
                          Cardinality({j \in (a + 1)..Len(h) :
                                         /\ h[j].role = "tool"
                                         /\ NearestAssistant(h, j) = a
                                         /\ h[j].tool_call_id = h[a].tool_calls[i].id}) = 1

C15_Witness ==
    /\ mode = "chat"
    /\ c_pc = "while"
    /\ turns = 2
    /\ iteration = 1
    /\ Len(conversation_history) = 9
    /\ conversation_history[4].content.key = "status"
    /\ conversation_history[8].content.key = "error"
    /\ conversation_history[9].role = "tool"

IsPrefix(a, b) == Len(a) <= Len(b) /\ SubSeq(b, 1, Len(a)) = a

\* messages m form one tool round: an assistant message with tool calls
\* followed by one tool message per call, in order
IsRound(m) ==
    /\ Len(m) >= 2
    /\ m[1].role = "assistant"
    /\ Len(m[1].tool_calls) = Len(m) - 1
    /\ \A i \in 1..(Len(m) - 1) :
          m[i + 1].role = "tool" /\ m[i + 1].tool_call_id = m[1].tool_calls[i].id

\* C16: in a run of generate_api_call_with_mcp the first model call gets
\* [system prompt, user prompt]; every model call gets the whole current
\* conversation; the conversation only grows at its end; and the list given
\* to a later model call is the list given to the call before it followed by
\* one tool round.
C16_ConversationAppendOnly ==
    /\ [](mode = "mcp" /\ pc = "llm" =>
            /\ sent_messages = conversation_history
            /\ SubSeq(sent_messages, 1, 2) = <<SystemMessage, UserMessage(question)>>
            /\ (llm_calls = 1 => Len(sent_messages) = 2))
    /\ [][(mode = "mcp" /\ pc # "entry" /\ pc' # "done") =>
            IsPrefix(conversation_history, conversation_history')]_vars
    /\ [][(mode = "mcp" /\ pc = "for" /\ pc' = "llm" /\ llm_calls >= 1) =>
            /\ IsPrefix(sent_messages, sent_messages')
            /\ IsRound(SubSeq(sent_messages', Len(sent_messages) + 1,
                              Len(sent_messages')))]_vars

C16_Witness ==
    /\ mode = "mcp"
    /\ pc = "llm"
    /\ llm_calls = 2
    /\ Len(sent_messages) = 5
    /\ sent_messages[3].role = "assistant"
    /\ sent_messages[5].role = "tool"

RoleCount(h, role) == Cardinality({i \in 1..Len(h) : h[i].role = role})

\* C17: in a batch every question starts from the state a lone call starts
\* from, and every message list given to the model for question j is the
\* system prompt, question j's own user prompt and then only the rounds of
\* question j's own run.
C17_FreshConversationPerQuestion ==
    /\ (mode = "batch" /\ b_pc = "running" /\ pc = "entry") =>
          /\ conversation_history = <<>>
          /\ sent_messages = <<>>
          /\ tool_calls = <<>> /\ results = <<>>
          /\ iteration = 0 /\ total_cost = 0 /\ llm_calls = 0
          /\ result = NoResult /\ caught = ""
          /\ ~connected /\ in_flight = {}
    /\ (mode = "batch" /\ pc = "llm") =>
          /\ sent_messages = conversation_history
          /\ sent_messages[1] = SystemMessage
          /\ sent_messages[2] = UserMessage(test_questions[item].question)
          /\ RoleCount(sent_messages, "system") = 1
          /\ RoleCount(sent_messages, "user") = 1
          /\ RoleCount(sent_messages, "assistant") = iteration
          /\ RoleCount(sent_messages, "tool") = iteration
          /\ llm_calls = iteration + 1

C17_Witness ==
    /\ mode = "batch"
    /\ pc = "llm"
    /\ item = 2
    /\ Len(main_results) = 1
    /\ iteration = 1
    /\ Len(sent_messages) = 4
    /\ sent_messages[2] = UserMessage("")
    /\ test_questions[1].question # ""

\* C18: at most one external call is in flight; a tool call is sent only
\* when none is in flight and it is the one after the calls that have
\* returned; a model call is sent only when every tool call of the round
\* before it has returned.
C18_OneCallInFlight ==
    /\ [](Cardinality(in_flight) <= 1)
    /\ [](pc = "llm" => in_flight = {LLMCall})
    /\ [][in_flight' \ in_flight # {} =>
            /\ in_flight = {}
            /\ \A f \in in_flight' :
                  f.kind = "tool" =>
                      /\ Len(results) < Len(tool_calls)
                      /\ f.id = tool_calls[Len(results) + 1].id
                  ]_vars
    /\ [][(pc # "llm" /\ pc' = "llm") =>
            /\ in_flight = {}
            /\ Len(results) = Len(tool_calls)]_vars

C18_Witness ==
    /\ pc = "call_tool"
    /\ Len(tool_calls) = 2
    /\ Len(results) = 1
    /\ in_flight = {ToolCallInFlight(tool_calls[2])}
    /\ tool_log[1].raised

\* C19 as stated, its scope: a run acquires the connection once, so no
\* connection is opened after a round of the run has been completed.
C19_OneConnectionPerRun ==
    [][(mode \in {"mcp", "batch"} /\ ~connected /\ connected') => iteration = 0]_vars

\* C19 as amended: the connection is opened by each tool round and is
\* closed whenever execute_tool_calls is left, by return or by exception;
\* it is open only inside a tool round, after a successful enter.
C19_ConnectionReleased ==
    /\ [](connected => (pc = "call_tool" \/ c_pc = "call_tool"))
    /\ []((pc = "done" \/ c_pc \in {"prompt", "exited"}) => ~connected)
    /\ [][(~connected /\ connected') =>
            \/ pc = "aenter" /\ pc' = "call_tool"
            \/ c_pc = "aenter" /\ c_pc' = "call_tool"]_vars
    /\ [][((pc = "aenter" /\ pc' # "call_tool") \/ (c_pc = "aenter" /\ c_pc' # "call_tool"))
            => ~connected']_vars

C19_Witness ==
    /\ mode = "mcp"
    /\ pc = "done"
    /\ caught = "CloseError"
    /\ iteration = 1
    /\ ~connected

\* rows r answer the first Len(r) of the questions, in order, uid by uid
RowsAnswer(r, questions) ==
    /\ Len(r) <= Len(questions)
    /\ \A i \in 1..Len(r) : r[i].uid = questions[i].uid

\* C20: the batch collects one row per question taken, in input order and
\* with the question's uid, whatever happened to the question; no question
\* stops the batch, which goes on until one row per input question has been
\* written.
C20_OneRowPerQuestion ==
    /\ [](mode = "batch" =>
            /\ RowsAnswer(main_results, test_questions)
            /\ Len(main_results) = (IF b_pc = "running" THEN item - 1 ELSE item)
            /\ b_pc # "crashed"
            /\ (b_pc # "finished" => ENABLED Next)
            /\ (b_pc = "finished" =>
                   /\ output_file.written
                   /\ Len(output_file.rows) = Len(test_questions)
                   /\ RowsAnswer(output_file.rows, test_questions)))
    /\ [][(mode = "batch" /\ b_pc = "running" /\ pc = "done") =>
            /\ b_pc' = "next"
            /\ Len(main_results') = Len(main_results) + 1]_vars
    /\ [][(mode = "batch" /\ b_pc = "next" /\ item < Len(test_questions)) =>
            b_pc' = "running"]_vars

C20_Witness ==
    /\ mode = "batch"
    /\ b_pc = "finished"
    /\ use_mcp
    /\ Len(test_questions) = 2
    /\ output_file.rows[1] = [uid |-> "uid-1", type |-> "GET", request |-> V1Assets]
    /\ output_file.rows[2].uid = "uid-2"
    /\ output_file.rows[2].request = SliceFrom(ScenarioA, 4)

----------------------------------------------------------------------------

Shown(what) == \E i \in 1..Len(echoed) : echoed[i] = what

\* the two interactive sessions, as opposed to the single query
InteractiveChat == mode = "chat" /\ driver \in {"cli", "streamlit"}

InTurn == c_pc \in {"while", "aenter", "call_tool"}

\* C21: in the interactive sessions, when the model call or the tool round
\* of a turn raises, the error is displayed, the session is back at its
\* prompt with the conversation it had (the list of the command-line
\* session, the stored messages of the Streamlit page), and the next input
\* is accepted: the failure does not end the session.
C21_SessionSurvivesFailure ==
    /\ [][(InteractiveChat /\ InTurn /\ caught' # "")
            => /\ c_pc' = "prompt"
               /\ echoed' = Append(echoed, "error")
               /\ driver = "cli" => conversation_history' = conversation_history
               /\ driver = "streamlit" => st_messages' = st_messages]_vars
    /\ []((InteractiveChat /\ c_pc = "prompt" /\ caught # "" /\ turns < MaxTurns)
            => ENABLED ChatPrompt)
    /\ []((InteractiveChat /\ c_pc = "exited")
            => user_input \in {"KeyboardInterrupt", "EXIT", "quit"})

\* the first turn of a Streamlit session failed in its model call, and the
\* second turn was answered
C21_Witness ==
    /\ mode = "chat"
    /\ driver = "streamlit"
    /\ llm_failures = 1
    /\ turns = 2
    /\ c_pc = "prompt"
    /\ Shown("answer")
    /\ Len(st_messages) = 3
    /\ st_messages[3].role = "assistant"

\* a turn of a chat driver is over: the driver is back at its prompt or has
\* ended, and the last input was a question
TurnOver ==
    /\ mode = "chat"
    /\ c_pc \in {"prompt", "exited", "crashed"}
    /\ user_input = "Kakaya cena Sberbanka?"

\* C30: in every chat driver a turn makes at most 5 model calls, and the
\* "maximum iterations" warning is produced for a turn exactly when all 5
\* rounds were completed tool rounds; a turn that got its final answer, in
\* the 5th round or before, produces no warning.
C30_WarningIffExhausted ==
    /\ mode = "chat" => llm_calls <= 5
    /\ TurnOver =>
          (Shown("max_iterations")
              <=> (iteration = 5 /\ ~final_text.received /\ caught = "" /\ ~escaped))

----------------------------------------------------------------------------

\* the list_tools calls of the instance that returned a list
Successes == {i \in 1..Len(returned) : ~returned[i].raised}

\* C22: on one MCPClient instance, once a fetch of the tool list succeeded
\* the server is not asked again and every later list_tools call returns the
\* same tools in the same order; a fetch that failed caches nothing, so the
\* cache is empty exactly as long as no call has succeeded.
C22_ListToolsCached ==
    mode = "client" =>
       /\ \A i \in Successes : \A j \in (i + 1)..Len(returned) :
             /\ ~returned[j].asked
             /\ ~returned[j].raised
             /\ returned[j].value = returned[i].value
       /\ Cardinality({i \in Successes : returned[i].asked}) <= 1
       /\ tools_cache.isnone <=> Successes = {}
       /\ \A i \in 1..Len(returned) : returned[i].raised => returned[i].asked
       /\ fetches = Cardinality({i \in 1..Len(returned) : returned[i].asked})

\* the first fetch failed, the second returned two tools, and the third
\* call was answered from the cache
C22_Witness ==
    /\ mode = "client"
    /\ Len(returned) = 3
    /\ returned[1].raised
    /\ ~returned[2].raised /\ returned[2].asked /\ Len(returned[2].value) = 2
    /\ ~returned[3].asked /\ returned[3].value = returned[2].value
    /\ fetches = 2

\* the entry the wire format has for a tool dict
WireEntry(tool) ==
    [type |-> "function",
     function |->
        IF "inputSchema" \in DOMAIN tool
        THEN [name |-> tool.name,
              description |-> IF "description" \in DOMAIN tool
                              THEN tool.description ELSE "",
              parameters |-> tool.inputSchema]
        ELSE [name |-> tool.name,
              description |-> IF "description" \in DOMAIN tool
                              THEN tool.description ELSE ""]]

\* C29: convert_to_openai_tools maps the tool list one-to-one and in order:
\* the result is as long as the list, and its i-th entry has type
\* "function" and a function built from the i-th tool: its name, its
\* description ("" when it has none), and its input schema as parameters
\* (an entry has parameters exactly when its tool has an input schema).
C29_ConvertOneToOne ==
    (mode = "client" /\ openai_tools.set) =>
       /\ Len(openai_tools.list) = Len(mcp_tools)
       /\ \A i \in 1..Len(mcp_tools) :
             /\ openai_tools.list[i].type = "function"
             /\ openai_tools.list[i].function.name = mcp_tools[i].name
             /\ openai_tools.list[i] = WireEntry(mcp_tools[i])

\* two different tools with input schemas were converted
C29_Witness ==
    /\ mode = "client"
    /\ openai_tools.set
    /\ Len(mcp_tools) = 2
    /\ mcp_tools[1].name # mcp_tools[2].name
    /\ \A i \in 1..2 : "parameters" \in DOMAIN openai_tools.list[i].function
    /\ openai_tools.list[2].function.parameters = mcp_tools[2].inputSchema
    /\ openai_tools.list[1].function.parameters = "object()"

----------------------------------------------------------------------------
(* The tool server                                                          *)

ToolCalled(tool) == s_call.layer = "tool" /\ s_call.name = tool

\* C28: check_finam_api always returns a record, never raises; its status is
\* "available" exactly when the API answered 200, "unavailable" exactly when
\* it answered another status code, "error" exactly when the request timed
\* out, could not connect or failed otherwise
C28_CheckApiStatus ==
    ToolCalled("check_finam_api") =>
        /\ ~s_result.raised
        /\ s_result.value.status \in {"available", "unavailable", "error"}
        /\ s_result.value.status = "available" <=> s_call.outcome.http = "200"
        /\ s_result.value.status = "unavailable"
              <=> s_call.outcome.http \in StatusCodes \ {"200"}
        /\ s_result.value.status = "error"
              <=> s_call.outcome.http \in RequestExceptions

C28_Witness ==
    /\ ToolCalled("check_finam_api")
    /\ s_call.outcome.http = "204"
    /\ s_result.value.status = "unavailable"

\* the call met a failure of the client: no token, a failed JWT exchange, a
\* failed request
ClientFailed ==
    \/ environ = ""
    \/ ~s_call.outcome.jwt_ok
    \/ ~s_call.outcome.backend_ok

\* C24: whatever the client under it does, a registered tool returns a
\* record with a "status" field and does not raise; when the client could
\* not be constructed, the JWT exchange failed or the request failed, the
\* status is "error" and the record has a message
C24_ToolsReturnStatus ==
    (s_call.layer = "tool" /\ s_call.name \in ServerRegistry) =>
        /\ ~s_result.raised
        /\ "status" \in DOMAIN s_result.value
        /\ (s_call.name # "check_finam_api" /\ ClientFailed) =>
              /\ s_result.value.status = "error"
              /\ "message" \in DOMAIN s_result.value

C24_Witness ==
    /\ ToolCalled("get_finam_quotes")
    /\ environ = ""
    /\ ~s_result.raised
    /\ s_result.value.status = "error"
    /\ s_result.value.symbol = "SBER@MISX"

\* C26: every tool the system prompt names is a tool of the server, so a
\* call of one is never answered "Unknown tool"; a call of get_finam_assets
\* with a working client returns status "success" and a non-empty list
\* under "assets"
C26_AdvertisedToolsRegistered ==
    (s_call.layer = "tool" /\ s_call.name \in AdvertisedTools) =>
        /\ s_call.name \in ServerRegistry
        /\ s_result.exc # "Unknown tool"
        /\ (s_call.name = "get_finam_assets" /\ ~ClientFailed) =>
              /\ ~s_result.raised
              /\ s_result.value.status = "success"
              /\ "assets" \in DOMAIN s_result.value
              /\ s_result.value.assets # <<>>

OrderEndpoints == {"GET orders", "POST orders", "DELETE orders"}

\* C23: no call changes the orders the brokerage holds, no call contacts an
\* order endpoint, and get_finam_orders, given a token and a successful JWT
\* exchange, returns status "success" with an empty list of orders
C23_OrdersUntouched ==
    /\ [][orders' = orders]_vars
    /\ [](endpoints \cap OrderEndpoints = {})
    /\ []((ToolCalled("get_finam_orders") /\ environ # "" /\ s_call.outcome.jwt_ok) =>
            /\ ~s_result.raised
            /\ s_result.value.status = "success"
            /\ s_result.value.orders = <<>>)

OrderBookCalled == s_call.name \in {"get_finam_orderbook", "get_orderbook"}

\* C27: a successful order book, from the tool or from the client's method,
\* has at most depth rows, and they are the first rows of the exchange's
\* book in its order
C27_DepthLimit ==
    (OrderBookCalled /\ ~s_result.raised /\ s_result.value.status = "success") =>
        LET rows == s_result.value.orderbook.rows
            book == s_call.outcome.book
        IN  /\ Len(rows) <= s_call.args.depth
            /\ Len(rows) <= Len(book)
            /\ rows = SubSeq(book, 1, Len(rows))

----------------------------------------------------------------------------
(* The cost accounting                                                      *)

RECURSIVE SumOf(_)
SumOf(costs) == IF costs = <<>> THEN 0 ELSE Head(costs) + SumOf(Tail(costs))

ListedModels ==
    {"openai/gpt-4o-mini", "openai/gpt-4o", "openai/gpt-3.5-turbo",
     "anthropic/claude-3-sonnet", "anthropic/claude-3-haiku"}

\* C25: the cost generate_api_call_with_mcp returns is linear in the prompt
\* and completion tokens of all the replies the run received, at the rate of
\* its model and at the default rate for a model that is not listed, whether
\* the run ends in an answer or in the fallback; main's total is the sum of
\* the costs returned for the questions done so far
C25_CostIsSumOverReplies ==
    /\ (McpRun /\ pc = "done" /\ ~escaped) =>
          /\ total_cost = billed.prompt_tokens * pricing(model).prompt
                            + billed.completion_tokens * pricing(model).completion
          /\ model \notin ListedModels =>
                total_cost = billed.prompt_tokens * 15 + billed.completion_tokens * 60
    /\ mode = "batch" => main_total_cost = SumOf(cost_log)

C25_Witness ==
    /\ mode = "mcp"
    /\ pc = "done"
    /\ result = FallbackResult
    /\ caught # ""
    /\ billed = [prompt_tokens |-> 140, completion_tokens |-> 20]
    /\ total_cost > 0

----------------------------------------------------------------------------
(* Tool rounds and the conversation                                         *)

InToolRound == McpRun /\ pc \in {"aenter", "call_tool"}

\* C31: while the tool calls of a round are run the conversation is the one
\* the model was last given; a round that completes appends the assistant
\* message with its tool calls and one tool message per call in one step; a
\* round that raises is left with the conversation as it was before it
C31_RoundAppendedAtomically ==
    /\ [](InToolRound => conversation_history = sent_messages)
    /\ [][(InToolRound /\ pc' = "for") =>
            /\ IsPrefix(conversation_history, conversation_history')
            /\ LET added == SubSeq(conversation_history',
                                   Len(conversation_history) + 1,
                                   Len(conversation_history'))
               IN  /\ IsRound(added)
                   /\ added[1].tool_calls = tool_calls
                   /\ Len(added) = 1 + Len(tool_calls)]_vars
    /\ [][(InToolRound /\ pc' = "done") =>
            /\ caught' \in {"ConnectError", "CloseError"}
            /\ conversation_history = sent_messages]_vars

C31_Witness ==
    /\ mode = "mcp"
    /\ pc = "done"
    /\ caught = "ConnectError"
    /\ iteration = 1
    /\ llm_calls = 2
    /\ result = FallbackResult

----------------------------------------------------------------------------
(* The batch without tools                                                  *)

\* C32: after a failed load of the tools the batch stays in base mode: no
\* tool list, no connection, no tool call; each question gets exactly one
\* model call; a failed model call gives {GET, /v1/assets} at cost 0; and
\* the file written has one well-formed row per question
C32_BaseModeAfterLoadFailure ==
    (mode = "batch" /\ load_failed) =>
        /\ ~use_mcp
        /\ tools = <<>>
        /\ ~connected
        /\ in_flight = {}
        /\ tool_log = <<>>
        /\ tool_calls = <<>>
        /\ llm_calls <= 1
        /\ pc = "done" =>
              /\ llm_calls = 1
              /\ ~escaped
              /\ WellFormed(result.type, result.request)
              /\ (llm_failures = 1 \/ caught # "") =>
                    /\ result = [type |-> "GET", request |-> V1Assets]
                    /\ total_cost = 0
        /\ b_pc = "finished" =>
              /\ Len(output_file.rows) = Len(test_questions)
              /\ \A i \in 1..Len(output_file.rows) :
                    /\ output_file.rows[i].uid = test_questions[i].uid
                    /\ WellFormed(output_file.rows[i].type,
                                  output_file.rows[i].request)

C32_Witness ==
    /\ mode = "batch"
    /\ load_failed
    /\ b_pc = "finished"
    /\ Len(output_file.rows) = 2
    /\ cost_log[1] = 0
    /\ cost_log[2] > 0
    /\ output_file.rows[1].request = V1Assets

\* C37: a batch over a test file without questions writes a file with no
\* rows and ends without an exception
C37_EmptyBatchFinishes ==
    (mode = "batch" /\ b_pc = "finished" /\ Len(test_questions) = 0) =>
        /\ output_file.written
        /\ output_file.rows = <<>>
        /\ main_raised = ""

----------------------------------------------------------------------------
(* execute_tool_calls and values that json.dumps rejects                    *)

\* C33: every call execute_tool_calls has made has exactly one tool message,
\* with the call's id and name; when the server's answer had a first item
\* without text or had no content the message holds an {"error": ...}
\* payload; and the function returns only after every call of the list has
\* its message
C33_UnserialisableResultGivesError ==
    mode = "exec" =>
        /\ Len(e_results) = Len(e_raw)
        /\ Len(e_results) <= Len(e_tool_calls)
        /\ \A i \in 1..Len(e_results) :
              /\ e_results[i].role = "tool"
              /\ e_results[i].tool_call_id = e_tool_calls[i].id
              /\ e_results[i].name = e_tool_calls[i].function.name
              /\ e_raw[i].kind \in {"non_text", "no_content"} =>
                    /\ e_results[i].content.fmt = "json"
                    /\ e_results[i].content.key = "error"
        /\ e_pc = "returned" => Len(e_results) = Len(e_tool_calls)

C33_Witness ==
    /\ mode = "exec"
    /\ e_pc = "returned"
    /\ Len(e_results) = 2
    /\ e_raw[1].kind = "no_content"
    /\ e_raw[2].kind = "json_text"
    /\ e_results[1].content.key = "error"
    /\ e_results[2].content.key = "status"

----------------------------------------------------------------------------
(* The command-line session and its commands                                *)

CommandSpellings == {"exit", "EXIT", "quit", "clear", "Clear", "tools"}

CliSession == mode = "chat" /\ driver = "cli"

\* a line has just been read at the prompt
LineRead == CliSession /\ turns' = turns + 1

\* C34: the history of the command-line session starts with the system
\* message and holds no other system message; no user message of it is one
\* of the commands; reading "clear" leaves the history with the system
\* message alone; and reading a command starts no turn, so no model call
\* follows it
C34_CliHistoryAndCommands ==
    /\ [](CliSession =>
            /\ Len(conversation_history) >= 1
            /\ conversation_history[1] = ChatSystemMessage
            /\ RoleCount(conversation_history, "system") = 1
            /\ \A i \in 1..Len(conversation_history) :
                  conversation_history[i].role = "user" =>
                      conversation_history[i].content.val \notin CommandSpellings)
    /\ [][(LineRead /\ user_input' \in {"clear", "Clear"}) =>
            conversation_history' = <<ChatSystemMessage>>]_vars
    /\ [][(LineRead /\ user_input' \in CommandSpellings) =>
            /\ c_pc' \in {"prompt", "exited"}
            /\ llm_calls' = llm_calls
            /\ Len(conversation_history') <= Len(conversation_history)]_vars

C34_Witness ==
    /\ CliSession
    /\ turns = 2
    /\ user_input = "Clear"
    /\ echoed = <<"cleared">>
    /\ session_rounds >= 1
    /\ conversation_history = <<ChatSystemMessage>>

----------------------------------------------------------------------------
(* The Streamlit page and its stored messages                               *)

StreamlitSession == mode = "chat" /\ driver = "streamlit"

\* C35: the stored messages of the page are user messages and assistant
\* answers with a non-empty text and no tool calls, never a tool message; a
\* tool round leaves them as they are; and the conversation a new turn
\* starts with is the system message followed by the stored messages, the
\* new user message last
C35_StoredMessagesAreFinal ==
    /\ [](StreamlitSession =>
            \A i \in 1..Len(st_messages) :
                /\ st_messages[i].role \in {"user", "assistant"}
                /\ st_messages[i].tool_calls = <<>>
                /\ st_messages[i].role = "assistant" =>
                      st_messages[i].content.val # <<>>)
    /\ [][(StreamlitSession /\ c_pc \in {"aenter", "call_tool"}) =>
            st_messages' = st_messages]_vars
    /\ [][(StreamlitSession /\ c_pc = "prompt" /\ c_pc' = "while") =>
            /\ st_messages' = Append(st_messages, UserMessage(user_input'))
            /\ conversation_history' = <<ChatSystemMessage>> \o st_messages'
            /\ RoleCount(conversation_history', "tool") = 0]_vars

C35_Witness ==
    /\ StreamlitSession
    /\ c_pc = "while"
    /\ turns = 2
    /\ session_rounds >= 1
    /\ Len(st_messages) = 3
    /\ st_messages[2].role = "assistant"
    /\ conversation_history = <<ChatSystemMessage>> \o st_messages

----------------------------------------------------------------------------
(* The instrument search                                                    *)

SearchReturned ==
    /\ s_call.layer = "client"
    /\ s_call.name = "get_instruments"
    /\ ~s_result.raised

\* C36: a search that returns with the demo account set has status
\* "success" and lists exactly the assets of the lookups that succeeded, each
\* once; a search with the empty query looks up at most 10 tickers; a search
\* without the demo account has status "error" and makes no lookup
C36_SearchListsFoundAssets ==
    SearchReturned =>
        LET lookups == s_result.lookups
            fails   == s_call.outcome.fails
            found   == {AssetOf(lookups[i]) :
                          i \in {k \in 1..Len(lookups) :
                                   /\ k \notin fails
                                   /\ InSeq(lookups[k], popular_tickers)}}
        IN  IF s_call.outcome.demo_account_id = ""
            THEN /\ s_result.value.status = "error"
                 /\ lookups = <<>>
                 /\ "GET assets" \notin s_result.contacted
            ELSE /\ s_result.value.status = "success"
                 /\ {s_result.value.instruments[i] :
                        i \in 1..Len(s_result.value.instruments)} = found
                 /\ Len(s_result.value.instruments) = Cardinality(found)
                 /\ s_call.args.query = "" => Len(lookups) <= 10

C36_Witness ==
    /\ SearchReturned
    /\ s_call.args.query = "sber"
    /\ s_call.outcome.demo_account_id # ""
    /\ s_call.outcome.fails = {1}
    /\ s_result.lookups = <<"SBER@MISX", "SBER@MISX">>
    /\ Len(s_result.value.instruments) = 1

----------------------------------------------------------------------------
(* The few-shot examples                                                    *)

CountOfType(rows, ty) == Len(OfType(rows, ty))

\* C38: for every num_examples >= 0 and every training set the call
\* returns, without raising, at most num_examples rows of the training set,
\* at most 2 of them POST and at most 1 DELETE, no row taken twice
C38_LoadReturnsBoundedSample ==
    (mode = "train" /\ t_pc # "call") =>
        /\ t_pc = "returned"
        /\ t_raised = ""
        /\ Len(selected) <= num_examples
        /\ CountOfType(selected, "POST") <= 2
        /\ CountOfType(selected, "DELETE") <= 1
        /\ \A i \in 1..Len(selected) : InSeq(selected[i], examples)
        /\ \A i, j \in 1..Len(selected) : i # j => selected[i] # selected[j]

----------------------------------------------------------------------------
(* The initialised flag of the API client                                   *)

ReadStarted(t) ==
    /\ a_task[t].at = "idle"
    /\ a_task'[t].op = "read"
    /\ a_task'[t].at # "idle"

SetFailed(t) ==
    /\ a_task[t].at = "set_jwt"
    /\ a_task'[t].at = "idle"
    /\ a_task'[t].out \in {"raised", "error"}

\* C39: the flag is true only after a token set succeeded on the instance;
\* a failed token set leaves the flag as it was, and a read operation sets
\* the token exactly when it starts with the flag false
C39_FlagFollowsTokenSet ==
    /\ [](a_initialized => a_succeeded > 0)
    /\ [][\A t \in Tasks : SetFailed(t) => a_initialized' = a_initialized]_vars
    /\ [][\A t \in Tasks : ReadStarted(t) =>
              a_started' = (IF a_initialized THEN a_started ELSE a_started + 1)]_vars

C39_Witness ==
    /\ mode = "instance"
    /\ a_initialized
    /\ a_ops = 3
    /\ a_started = 2
    /\ a_succeeded = 1
    /\ a_task["t1"] = [op |-> "read", at |-> "body", out |-> ""]
    /\ a_task["t2"].out = "raised"

====
